---------------------------- MODULE Spec2Model ----------------------------
(***************************************************************************)
(* Background removal of the sticker applet: makeBackgroundTransparent of  *)
(* src/utils/transparency.ts as a state machine, one action per            *)
(* synchronous stretch of the call, and the debounced preview effect of    *)
(* TransparencyEditorModal that drives it.                                 *)
(*                                                                         *)
(* Number representation.  The code computes in IEEE doubles and stores    *)
(* into Float32Array.  Here CIE L*a*b* components are integers in          *)
(* hundredths, luminance and gradient are integers in tenths, a likelihood *)
(* is an integer in thousandths (LikeOne = 1.0) and a mask value is the    *)
(* float32 the code stores, as a whole number of units of 2^-28.           *)
(***************************************************************************)
EXTENDS Integers, Sequences, FiniteSets, TLC

VARIABLES
    pc,      \* position of the call: "idle", "loading", "seedX", "seedY", "grow", "done"
    img,     \* the image behind imageUrl: [w, h, px], px[p] = <<r, g, b, a>>
    opts,    \* the options record passed by the caller
    data,    \* imgData.data, the RGBA pixel buffer read from the canvas
    refLab,  \* <<c1Lab, c2Lab>>, the two background references
    bestPeriod,
    like,    \* like[p], thousandths
    seen,    \* seen[p], 0 or 1
    queue,   \* queueX/queueY as one array of <<x, y>>; <<-1, -1>> is an unwritten slot
    head,
    tail,
    at,      \* the counter of the border loops (x of lines 269-273, y of lines 274-279)
    mask,    \* mask[p], in units of 2^-28
    result,  \* how the promise settled: "none" (pending), "imageUrl", "png" or "rejected"
    thrown,  \* what was thrown inside the try block: "none", "load", "context" or "read"
    \* TransparencyEditorModal
    sticker,      \* the sticker prop: [imageUrl, originalImageUrl]
    seedPoints,   \* the seed list, a sequence of seed names
    previewUrl,
    isProcessing,
    runs,         \* the runs of the debounced effect, oldest first: [seeds, url, cancelled, stage, value]
    writer,       \* index in runs of the run whose callback last set previewUrl, 0 if none
    \* normalizeImageSize
    resize,       \* one call: [pc, w, h, maxDimension, context, outcome, width, height]
    \* the other invocations of makeBackgroundTransparent
    calls,        \* [running, waiting, finished]: the number of the call that runs, the
                  \* calls suspended at the await and the calls that have settled
    \* the feather on its own
    blur,         \* [w, h, radius, mask, separable, box]: a binary mask and what the two
                  \* feathers make of it, <<>> until they have run
    \* StickerAppPage
    expressions,  \* the labels of the expressions, in order
    stickers,     \* [label, imageUrl, originalImageUrl, status], in order
    userImage,    \* whether there is a cropped image
    transparentBackground,
    isLoading,
    editingSticker,  \* <<>> or <<the sticker the modal was opened on>>
    generating    \* the calls of generateSticker, oldest first:
                  \* [label, transparent, stage, original, loop, last]

engineVars ==
    <<pc, img, opts, data, refLab, bestPeriod, like, seen, queue, head, tail, at, mask, result,
      thrown>>

editorVars == <<sticker, seedPoints, previewUrl, isProcessing, runs, writer>>

resizeVars == <<resize>>

callsVars == <<calls>>

blurVars == <<blur>>

pageVars ==
    <<expressions, stickers, userImage, transparentBackground, isLoading, editingSticker, generating>>

\* what a step of makeBackgroundTransparent leaves alone
outsideEngine == <<editorVars, resizeVars, callsVars, blurVars, pageVars>>

\* what a step of the modal leaves alone
outsideEditor == <<engineVars, resizeVars, callsVars, blurVars, pageVars>>

\* what a step of normalizeImageSize leaves alone
outsideResize == <<engineVars, editorVars, callsVars, blurVars, pageVars>>

\* what a run of the feather on its own leaves alone
outsideBlur == <<engineVars, editorVars, resizeVars, callsVars, pageVars>>

\* what a step of the page leaves alone
outsidePage == <<engineVars, editorVars, resizeVars, callsVars, blurVars>>

vars == <<engineVars, editorVars, resizeVars, callsVars, blurVars, pageVars>>

-----------------------------------------------------------------------------
(* Bounds of the model *)

MaxSide == 3

MaxUniformSide == 9

MaxFeather == 1

CheckerTile == 8

DiskRadius == 2

-----------------------------------------------------------------------------
(* Program constants *)

DefaultColorTol == 10

DefaultTileGuess == 16

DefaultGradKeep == 10

DefaultFeather == 2

PatchSize == 24

MinPeriod == 8

PeriodSpan == 6

ScoreGrid == 64

LikeOne == 1000

\* feather is counted in halves of a pixel, so that Math.floor has work to do
FeatherUnit == 2

-----------------------------------------------------------------------------
(* Colours the images are drawn from *)

White == <<255, 255, 255>>

Near == <<250, 250, 250>>

Mid == <<220, 220, 220>>

Black == <<0, 0, 0>>

Red == <<255, 0, 0>>

Max(a, b) == IF a >= b THEN a ELSE b

Min(a, b) == IF a <= b THEN a ELSE b

Abs(a) == IF a >= 0 THEN a ELSE -a

RECURSIVE SqrtSearch(_, _, _)
SqrtSearch(n, lo, hi) ==
    IF lo >= hi THEN lo
    ELSE LET m == (lo + hi + 1) \div 2
         IN IF m * m <= n THEN SqrtSearch(n, m, hi) ELSE SqrtSearch(n, lo, m - 1)

\* floor of the square root
ISqrt(n) == SqrtSearch(n, 0, 46340)

\* rgbToLab on every colour whose channels are in {0, 220, 250, 255}, in
\* hundredths, rounded: the values of lines 20-37 (srgbToLinear, the D65
\* matrix, labF) on those inputs.
LabTable ==
    <<0,0,0>> :> <<0,0,0>> @@ <<0,0,220>> :> <<2720,7083,-9648>> @@
    <<0,0,250>> :> <<3158,7801,-10625>> @@ <<0,0,255>> :> <<3230,7919,-10786>> @@
    <<0,220,0>> :> <<7679,-7709,7440>> @@ <<0,220,220>> :> <<7981,-4301,-1264>> @@
    <<0,220,250>> :> <<8078,-3381,-2713>> @@ <<0,220,255>> :> <<8096,-3222,-2951>> @@
    <<0,250,0>> :> <<8619,-8490,8194>> @@ <<0,250,220>> :> <<8870,-5564,50>> @@
    <<0,250,250>> :> <<8952,-4737,-1392>> @@ <<0,250,255>> :> <<8967,-4592,-1630>> @@
    <<0,255,0>> :> <<8773,-8618,8318>> @@ <<0,255,220>> :> <<9017,-5763,264>> @@
    <<0,255,250>> :> <<9097,-4951,-1175>> @@ <<0,255,255>> :> <<9111,-4809,-1413>> @@
    <<220,0,0>> :> <<4594,7164,6011>> @@ <<220,0,220>> :> <<5227,8787,-5441>> @@
    <<220,0,250>> :> <<5415,9235,-6828>> @@ <<220,0,255>> :> <<5449,9313,-7052>> @@
    <<220,220,0>> :> <<8520,-1928,8451>> @@ <<220,220,220>> :> <<8776,0,0>> @@
    <<220,220,250>> :> <<8859,572,-1457>> @@ <<220,220,255>> :> <<8874,674,-1697>> @@
    <<220,250,0>> :> <<9327,-3343,9048>> @@ <<220,250,220>> :> <<9548,-1517,1114>> @@
    <<220,250,250>> :> <<9620,-966,-328>> @@ <<220,250,255>> :> <<9633,-868,-567>> @@
    <<220,255,0>> :> <<9463,-3570,9149>> @@ <<220,255,220>> :> <<9678,-1762,1299>> @@
    <<220,255,250>> :> <<9749,-1216,-139>> @@ <<220,255,255>> :> <<9761,-1118,-378>> @@
    <<250,0,0>> :> <<5221,7890,6620>> @@ <<250,0,220>> :> <<5756,9279,-4568>> @@
    <<250,0,250>> :> <<5919,9677,-5992>> @@ <<250,0,255>> :> <<5948,9747,-6223>> @@
    <<250,220,0>> :> <<8773,-657,8749>> @@ <<250,220,220>> :> <<9017,1034,381>> @@
    <<250,220,250>> :> <<9097,1544,-1077>> @@ <<250,220,255>> :> <<9111,1635,-1317>> @@
    <<250,250,0>> :> <<9545,-2123,9307>> @@ <<250,250,220>> :> <<9758,-497,1441>> @@
    <<250,250,250>> :> <<9827,0,0>> @@ <<250,250,255>> :> <<9840,89,-239>> @@
    <<250,255,0>> :> <<9676,-2360,9403>> @@ <<250,255,220>> :> <<9883,-746,1619>> @@
    <<250,255,250>> :> <<9951,-252,181>> @@ <<250,255,255>> :> <<9964,-164,-57>> @@
    <<255,0,0>> :> <<5324,8009,6720>> @@ <<255,0,220>> :> <<5845,9364,-4422>> @@
    <<255,0,250>> :> <<6004,9755,-5851>> @@ <<255,0,255>> :> <<6032,9823,-6082>> @@
    <<255,220,0>> :> <<8818,-445,8802>> @@ <<255,220,220>> :> <<9060,1209,448>> @@
    <<255,220,250>> :> <<9139,1709,-1009>> @@ <<255,220,255>> :> <<9154,1798,-1250>> @@
    <<255,250,0>> :> <<9584,-1917,9353>> @@ <<255,250,220>> :> <<9795,-322,1500>> @@
    <<255,250,250>> :> <<9864,166,59>> @@ <<255,250,255>> :> <<9877,253,-180>> @@
    <<255,255,0>> :> <<9714,-2155,9448>> @@ <<255,255,220>> :> <<9920,-572,1676>> @@
    <<255,255,250>> :> <<9988,-87,238>> @@ <<255,255,255>> :> <<10000,0,0>>

rgbToLab(r, g, b) == LabTable[<<r, g, b>>]

\* dL * dL + dA * dA + dB * dB of distLab
distLabSquared(l, a, b, ref) ==
    LET dL == l - ref[1]
        dA == a - ref[2]
        dB == b - ref[3]
    IN dL * dL + dA * dA + dB * dB

\* distLab, hundredths
distLab(l, a, b, ref) == ISqrt(distLabSquared(l, a, b, ref))

\* luminance of line 152, tenths
Luminance(r, g, b) == (2126 * r + 7152 * g + 722 * b) \div 1000

-----------------------------------------------------------------------------
(* Sequences of samples *)

\* the entry at index (length / 2) | 0 of the sorted list of channel ch of the
\* samples: the value with at most that many entries below it and more than
\* that many entries not above it
sortedMiddle(samples, ch) ==
    LET k == Len(samples) \div 2
    IN CHOOSE v \in {samples[j][ch] : j \in DOMAIN samples} :
            /\ Cardinality({j \in DOMAIN samples : samples[j][ch] < v}) <= k
            /\ Cardinality({j \in DOMAIN samples : samples[j][ch] <= v}) > k

medianColor(samples) == <<sortedMiddle(samples, 1), sortedMiddle(samples, 2), sortedMiddle(samples, 3)>>

pickPatch(d, width, height, x0, y0) ==
    LET xEnd == Min(width, x0 + PatchSize)
        yEnd == Min(height, y0 + PatchSize)
        pw == Max(0, xEnd - x0)
        ph == Max(0, yEnd - y0)
    IN [k \in 1..(pw * ph) |->
            LET x == x0 + ((k - 1) % pw)
                y == y0 + ((k - 1) \div pw)
                px == d[y * width + x]
            IN <<px[1], px[2], px[3]>>]

cornerSamples(d, width, height) ==
    pickPatch(d, width, height, 0, 0)
    \o pickPatch(d, width, height, Max(0, width - PatchSize), 0)
    \o pickPatch(d, width, height, 0, Max(0, height - PatchSize))
    \o pickPatch(d, width, height, Max(0, width - PatchSize), Max(0, height - PatchSize))

\* L of a sample (cornerLs of line 165)
sampleL(rgb) == rgbToLab(rgb[1], rgb[2], rgb[3])[1]

\* medianL of lines 166-167
medianL(samples) ==
    LET k == Len(samples) \div 2
    IN CHOOSE v \in {sampleL(samples[j]) : j \in DOMAIN samples} :
            /\ Cardinality({j \in DOMAIN samples : sampleL(samples[j]) < v}) <= k
            /\ Cardinality({j \in DOMAIN samples : sampleL(samples[j]) <= v}) > k

isLight(rgb, m) == sampleL(rgb) >= m

lightSamples(samples, m) == SelectSeq(samples, LAMBDA rgb : isLight(rgb, m))

darkSamples(samples, m) == SelectSeq(samples, LAMBDA rgb : ~isLight(rgb, m))

\* c1 and c2 of lines 177-178
c1Of(samples, light) == medianColor(IF Len(light) > 0 THEN light ELSE samples)

\* a second reference that is black when no sample is dark
c2OfDarkOrBlack(samples, dark) == IF Len(dark) > 0 THEN medianColor(dark) ELSE Black

c2Of(samples, dark) == medianColor(IF Len(dark) > 0 THEN dark ELSE samples)

\* <<c1Lab, c2Lab>> of lines 155-180
backgroundLab(d, width, height) ==
    LET samples == cornerSamples(d, width, height)
        m == medianL(samples)
        c1 == c1Of(samples, lightSamples(samples, m))
        c2 == c2Of(samples, darkSamples(samples, m))
    IN <<rgbToLab(c1[1], c1[2], c1[3]), rgbToLab(c2[1], c2[2], c2[3])>>

-----------------------------------------------------------------------------
(* Per-pixel maps *)

\* Lab of pixel p of buffer d
labOf(d, p) == rgbToLab(d[p][1], d[p][2], d[p][3])

\* dc1 (k = 1) or dc2 (k = 2) of pixel p: its distance to reference k
dcOf(d, p, labs, k) ==
    LET lab == labOf(d, p)
    IN distLab(lab[1], lab[2], lab[3], labs[k])

tileParity(x, y, period) == ((x \div period) + (y \div period)) % 2

\* the test of lines 189-193 at pixel p.  It only compares distances, with each
\* other and with colorTol, so it is taken on their squares: no rounding of a
\* square root decides it.
scores(d, p, width, labs, colorTol, period) ==
    LET lab == labOf(d, p)
        dc1 == distLabSquared(lab[1], lab[2], lab[3], labs[1])
        dc2 == distLabSquared(lab[1], lab[2], lab[3], labs[2])
        match == IF tileParity(p % width, p \div width, period) = 1 THEN dc2 < dc1 ELSE dc1 < dc2
    IN colorTol > 0 /\ Min(dc1, dc2) < (colorTol * 100) * (colorTol * 100) /\ match

\* scorePeriod of lines 182-199
scorePeriod(d, width, height, labs, colorTol, period) ==
    LET step == Max(1, width \div ScoreGrid)
    IN Cardinality({p \in 0..(width * height - 1) :
                        /\ (p % width) % step = 0
                        /\ (p \div width) % step = 0
                        /\ scores(d, p, width, labs, colorTol, period)})

RECURSIVE periodLoop(_, _, _, _, _, _, _, _, _)
\* the loop of lines 201-209 from `period` on: a strictly higher score wins
periodLoop(d, width, height, labs, colorTol, period, last, best, bestScore) ==
    IF period > last THEN best
    ELSE LET score == scorePeriod(d, width, height, labs, colorTol, period)
         IN IF score > bestScore
            THEN periodLoop(d, width, height, labs, colorTol, period + 1, last, period, score)
            ELSE periodLoop(d, width, height, labs, colorTol, period + 1, last, best, bestScore)

findBestPeriod(d, width, height, labs, colorTol, tileGuess) ==
    periodLoop(d, width, height, labs, colorTol, Max(MinPeriod, tileGuess - PeriodSpan),
               tileGuess + PeriodSpan, tileGuess, -1)

\* a gradient taken at every pixel, the pixels past the border being those of
\* the border
gradAtClamped(d, width, height, p) ==
    LET x == p % width
        y == p \div width
        lum(yy, xx) ==
            LET q == d[Max(0, Min(height - 1, yy)) * width + Max(0, Min(width - 1, xx))]
            IN Luminance(q[1], q[2], q[3])
        gx == 0 - lum(y - 1, x - 1) - 2 * lum(y, x - 1) - lum(y + 1, x - 1)
              + lum(y - 1, x + 1) + 2 * lum(y, x + 1) + lum(y + 1, x + 1)
        gy == 0 - lum(y - 1, x - 1) - 2 * lum(y - 1, x) - lum(y - 1, x + 1)
              + lum(y + 1, x - 1) + 2 * lum(y + 1, x) + lum(y + 1, x + 1)
    IN ISqrt(gx * gx + gy * gy) \div 8

\* grad of lines 211-233 at pixel p, tenths; 0 where the loops do not write
gradAt(d, width, height, p) ==
    LET x == p % width
        y == p \div width
        lum(yy, xx) == LET q == d[yy * width + xx] IN Luminance(q[1], q[2], q[3])
    IN IF x < 1 \/ x >= width - 1 \/ y < 1 \/ y >= height - 1 THEN 0
       ELSE LET gx == 0 - lum(y - 1, x - 1) - 2 * lum(y, x - 1) - lum(y + 1, x - 1)
                      + lum(y - 1, x + 1) + 2 * lum(y, x + 1) + lum(y + 1, x + 1)
                gy == 0 - lum(y - 1, x - 1) - 2 * lum(y - 1, x) - lum(y - 1, x + 1)
                      + lum(y + 1, x - 1) + 2 * lum(y + 1, x) + lum(y + 1, x + 1)
            IN ISqrt(gx * gx + gy * gy) \div 8

\* Math.max(0, 1 - dc / colorTol), then * 0.2 on a protected edge (lines 244-247).
\* With colorTol = 0 the quotient is Infinity or, at dc = 0, NaN, and the
\* likelihood 0 or NaN; NaN fails the tests like > 0.5 and like >= 1 as 0 does,
\* and is held as 0.
likelihood(dc, colorTol, g, gradKeep) ==
    LET tol == colorTol * 100
        base == IF dc >= tol THEN 0 ELSE (LikeOne * (tol - dc)) \div tol
    IN IF g > gradKeep * 10 THEN (base * 2) \div 10 ELSE base

\* like[index] of lines 239-248
likeAt(d, width, height, p, labs, period, o) ==
    LET dc == IF tileParity(p % width, p \div width, period) = 1
              THEN dcOf(d, p, labs, 2) ELSE dcOf(d, p, labs, 1)
    IN likelihood(dc, o.colorTol, gradAt(d, width, height, p), o.gradKeep)

-----------------------------------------------------------------------------
(* Mask values *)

\* A Float32Array element is held as a whole number of units of 2^-28. Every
\* value the feather makes is a float of at least 1/25 (a window has at
\* most 2 * DefaultFeather + 1 entries in each pass), so the unit loses nothing.
MaskOne == 2^28

\* float32 keeps 24 significant bits
MantissaBits == 24

RECURSIVE powerBelow(_, _, _)
\* the largest power of two, from p downwards, that is at most num / den
powerBelow(num, den, p) == IF p * den <= num \/ p = 1 THEN p ELSE powerBelow(num, den, p \div 2)

\* the store of num / den into a Float32Array: the nearest float, ties to even.
\* The sum of up to five floats and its division are exact or correctly
\* rounded in double precision, and rounding the double again gives the same
\* float because a quotient by 3 or 5 is never within a double's error of a
\* float tie.
toFloat32(num, den) ==
    IF num = 0 THEN 0
    ELSE LET ulp == Max(1, powerBelow(num, den, MaskOne) \div 2^(MantissaBits - 1))
             q == num \div (den * ulp)
             r == num % (den * ulp)
         IN IF 2 * r > den * ulp \/ (2 * r = den * ulp /\ q % 2 = 1) THEN (q + 1) * ulp
            ELSE q * ulp

RECURSIVE windowSum(_, _, _)
\* f[lo] + ... + f[hi]
windowSum(f, lo, hi) == IF lo > hi THEN 0 ELSE f[lo] + windowSum(f, lo + 1, hi)

\* the horizontal pass of lines 85-96: tmp[rowOffset + x] = sum / (end - start + 1)
featherRows(m, width, height, radius) ==
    [p \in 0..(width * height - 1) |->
        LET x == p % width
            rowOffset == (p \div width) * width
            start == Max(0, x - radius)
            end == Min(width - 1, x + radius)
            sum == windowSum([xi \in start..end |-> m[rowOffset + xi]], start, end)
        IN toFloat32(sum, end - start + 1)]

\* a vertical pass that leaves the sum undivided
featherColumnsSummed(tmp, width, height, radius) ==
    [p \in 0..(width * height - 1) |->
        LET x == p % width
            y == p \div width
            start == Max(0, y - radius)
            end == Min(height - 1, y + radius)
        IN windowSum([yi \in start..end |-> tmp[yi * width + x]], start, end)]

\* the vertical pass of lines 98-109, reading tmp
featherColumns(tmp, width, height, radius) ==
    [p \in 0..(width * height - 1) |->
        LET x == p % width
            y == p \div width
            start == Max(0, y - radius)
            end == Min(height - 1, y + radius)
            sum == windowSum([yi \in start..end |-> tmp[yi * width + x]], start, end)
        IN toFloat32(sum, end - start + 1)]

\* a feather that stops after the horizontal pass
applyFeatherRowsOnly(m, width, height, radius) ==
    IF radius <= 0 THEN m ELSE featherRows(m, width, height, radius)

applyFeather(m, width, height, radius) ==
    IF radius <= 0 THEN m
    ELSE featherColumns(featherRows(m, width, height, radius) @@ <<>>, width, height, radius)

\* a mask that wants more than the full likelihood
binaryMaskAboveOne(lk) == [p \in DOMAIN lk |-> IF lk[p] > LikeOne THEN MaskOne ELSE 0]

\* mask[i] = like[i] >= 1 ? 1 : 0
binaryMask(lk) == [p \in DOMAIN lk |-> IF lk[p] >= LikeOne THEN MaskOne ELSE 0]

\* a guard that lets a feather of 0 through
featheredMaskFromZero(m, width, height, feather) ==
    IF feather >= 0 THEN applyFeather(m, width, height, Max(1, feather \div FeatherUnit)) ELSE m

\* lines 312-315; feather in halves, so Math.floor(feather) is feather \div FeatherUnit
featheredMask(m, width, height, feather) ==
    IF feather > 0 THEN applyFeather(m, width, height, Max(1, feather \div FeatherUnit)) ELSE m

\* MaskOne = 256 * AlphaSplit
AlphaSplit == MaskOne \div 256

\* an alpha that is cut off, not rounded
alphaOfTruncated(m) ==
    LET rest == MaskOne - m
    IN (255 * (rest \div AlphaSplit) + (255 * (rest % AlphaSplit)) \div AlphaSplit) \div 256

\* Math.round((1 - mask[pixel]) * 255) of line 318, the product exact in double
\* precision and the rounding floor(v + 0.5); the product is taken in two
\* parts of 1 - mask to stay within 32 bits
alphaOf(m) ==
    LET rest == MaskOne - m
    IN (255 * (rest \div AlphaSplit)
        + (255 * (rest % AlphaSplit) + AlphaSplit * 128) \div AlphaSplit) \div 256

\* a write that also blanks the colour of a pixel it makes fully transparent
writeAlphaBlanking(d, m) ==
    [p \in DOMAIN d |->
        IF alphaOf(m[p]) = 0 THEN <<0, 0, 0, 0>> ELSE <<d[p][1], d[p][2], d[p][3], alphaOf(m[p])>>]

\* lines 317-319: only offset + 3 is written
writeAlpha(d, m) == [p \in DOMAIN d |-> <<d[p][1], d[p][2], d[p][3], alphaOf(m[p])>>]

-----------------------------------------------------------------------------
(* The queue of the region growing *)

Unwritten == <<-1, -1>>

\* an enqueue that does not look at seen
enqueueAgain(st, x, y, width) ==
    LET idx == y * width + x
    IN [seen |-> [st.seen EXCEPT ![idx] = 1],
        queue |-> IF st.tail \in DOMAIN st.queue THEN [st.queue EXCEPT ![st.tail] = <<x, y>>]
                  ELSE st.queue,
        tail |-> st.tail + 1]

\* enqueue of lines 258-267 on st = [seen, queue, tail]; a typed array drops a
\* write past its end
enqueue(st, x, y, width) ==
    LET idx == y * width + x
    IN IF st.seen[idx] = 1 THEN st
       ELSE [seen |-> [st.seen EXCEPT ![idx] = 1],
             queue |-> IF st.tail \in DOMAIN st.queue
                       THEN [st.queue EXCEPT ![st.tail] = <<x, y>>] ELSE st.queue,
             tail |-> st.tail + 1]

\* the four neighbours and the four diagonal ones
neighboursWithDiagonals ==
    <<<<1, 0>>, <<-1, 0>>, <<0, 1>>, <<0, -1>>, <<1, 1>>, <<-1, 1>>, <<1, -1>>, <<-1, -1>>>>

\* lines 281-286
neighbours == <<<<1, 0>>, <<-1, 0>>, <<0, 1>>, <<0, -1>>>>

\* the test in front of every enqueue of the border loops: like[...] > 0.5
borderAdmits(lk, idx) == lk[idx] > LikeOne \div 2

\* the test of line 301
neighbourAdmits(st, lk, nIdx) == st.seen[nIdx] = 0 /\ lk[nIdx] > LikeOne \div 2

\* if (like[idx] > 0.5) enqueue(x, y)
seedPixel(st, lk, x, y, width) ==
    IF borderAdmits(lk, y * width + x) THEN enqueue(st, x, y, width) ELSE st

RECURSIVE visitNeighbours(_, _, _, _, _, _, _)
visitNeighbours(st, lk, x, y, k, width, height) ==
    IF k > Len(neighbours) THEN st
    ELSE LET nx == x + neighbours[k][1]
             ny == y + neighbours[k][2]
             inside == nx >= 0 /\ nx < width /\ ny >= 0 /\ ny < height
             next == IF inside /\ neighbourAdmits(st, lk, ny * width + nx)
                     THEN enqueue(st, nx, ny, width) ELSE st
         IN visitNeighbours(next, lk, x, y, k + 1, width, height)

-----------------------------------------------------------------------------
(* Inputs: images and options *)

\* a field of Partial<TransparencyOptions>: <<>> when left out, <<v>> when given
Absent == <<>>

Given(v) == <<v>>

Modes == {"auto", "seed", "auto+seed"}

\* alpha of the decoded input: opaque, except the inside of a framed rectangle
Opaque == 255

HalfAlpha == 128

FramedPalette == {White, Near, Mid}

\* a w x h image of colour paper holding the rectangle x0..x1 x y0..y1, whose
\* outline has colour ring and whose inside has colour fill
FramedImage(w, h, x0, y0, x1, y1, paper, ring, fill) ==
    [w |-> w, h |-> h,
     px |-> [p \in 0..(w * h - 1) |->
                LET x == p % w
                    y == p \div w
                IN IF x < x0 \/ x > x1 \/ y < y0 \/ y > y1 THEN paper \o <<Opaque>>
                   ELSE IF x = x0 \/ x = x1 \/ y = y0 \/ y = y1 THEN ring \o <<Opaque>>
                   ELSE fill \o <<HalfAlpha>>]]

Rects(w, h) ==
    {q \in (0..(w - 1)) \X (0..(h - 1)) \X (0..(w - 1)) \X (0..(h - 1)) :
        q[1] <= q[3] /\ q[2] <= q[4]}

FramedOfSize(w, h) ==
    IF w * h = 0 THEN {[w |-> w, h |-> h, px |-> <<>>]}
    ELSE {FramedImage(w, h, r[1], r[2], r[3], r[4], c[1], c[2], c[3]) :
            r \in Rects(w, h), c \in FramedPalette \X FramedPalette \X FramedPalette}

FramedImages == UNION {FramedOfSize(w, h) : w \in 0..MaxSide, h \in 0..MaxSide}

\* a w x h image of colour paper with two pixels of colour speck at the start
\* of the first row and one pixel of colour spot in the middle
SpeckImage(w, h, paper, speck, spot) ==
    [w |-> w, h |-> h,
     px |-> [p \in 0..(w * h - 1) |->
                IF p = (h \div 2) * w + (w \div 2) THEN spot \o <<Opaque>>
                ELSE IF p < 2 THEN speck \o <<Opaque>>
                ELSE paper \o <<Opaque>>]]

SpeckImages ==
    {SpeckImage(MaxSide, h, c[1], c[2], c[3]) :
        h \in 2..MaxSide, c \in FramedPalette \X FramedPalette \X FramedPalette}

\* a w x h image of colour paper in which every second pixel, along the rows
\* and along the columns, has colour other: the pixels of colour paper touch
\* each other at their corners only
LatticeImage(w, h, paper, other) ==
    [w |-> w, h |-> h,
     px |-> [p \in 0..(w * h - 1) |->
                IF ((p % w) + (p \div w)) % 2 = 0 THEN paper \o <<Opaque>>
                ELSE other \o <<Opaque>>]]

LatticeImages ==
    {LatticeImage(MaxSide, MaxSide, c[1], c[2]) : c \in FramedPalette \X FramedPalette}

UniformPalette == {White, Mid, Red}

UniformImage(w, h, colour) == [w |-> w, h |-> h, px |-> [p \in 0..(w * h - 1) |-> colour \o <<Opaque>>]]

UniformImages ==
    {UniformImage(w, h, c) : w \in (MaxSide + 1)..MaxUniformSide, h \in 1..MaxSide, c \in UniformPalette}

\* a checkerboard of 2 x 2 tiles of side t, light at the origin, with a disk of
\* colour disk and radius DiskRadius around the centre of the image
CheckerImage(t, light, dark, disk) ==
    [w |-> 2 * t, h |-> 2 * t,
     px |-> [p \in 0..(4 * t * t - 1) |->
                LET x == p % (2 * t)
                    y == p \div (2 * t)
                    dx == 2 * x - (2 * t - 1)
                    dy == 2 * y - (2 * t - 1)
                IN IF dx * dx + dy * dy <= 4 * DiskRadius * DiskRadius THEN disk \o <<Opaque>>
                   ELSE IF ((x \div t) + (y \div t)) % 2 = 0 THEN light \o <<Opaque>>
                   ELSE dark \o <<Opaque>>]]

rgbOf(px) == <<px[1], px[2], px[3]>>

IsUniform(image) == \A p \in DOMAIN image.px : rgbOf(image.px[p]) = rgbOf(image.px[0])

IsChecker(image) == image.w = 2 * CheckerTile /\ image = CheckerImage(CheckerTile, White, Black, Red)

\* a seed as handlePreviewClick makes it, put on the middle pixel
MiddleSeed(image) == [x |-> image.w \div 2, y |-> image.h \div 2, force |-> TRUE]

Feathers == {Absent} \cup {Given(f) : f \in (-1)..MaxFeather}

Options(image) ==
    {[colorTol |-> Absent, tileGuess |-> tg, gradKeep |-> Absent, feather |-> f,
      seedPoints |-> s, mode |-> m] :
        tg \in IF IsChecker(image) THEN {Given(CheckerTile)}
               ELSE IF image.w > MaxSide THEN {Absent, Given(MinPeriod)} ELSE {Absent},
        f \in Feathers,
        s \in {<<>>, <<MiddleSeed(image)>>},
        m \in Modes}

\* options that make no sense: a colour tolerance of 0
Malformed(o) == o.colorTol # Absent /\ o.colorTol[1] <= 0

\* the malformed option sets, passed with the speckled images of two colours
\* or more
MalformedOptions(image) ==
    IF image \in SpeckImages /\ ~IsUniform(image)
    THEN {[colorTol |-> Given(0), tileGuess |-> Absent, gradKeep |-> Absent, feather |-> Absent,
           seedPoints |-> <<>>, mode |-> "auto"]}
    ELSE {}

\* the option sets a caller passes: seeds come with a seed mode, and the
\* feather is varied on the automatic pass
Passed(image) ==
    {o \in Options(image) :
        /\ (o.seedPoints = <<>>) <=> (o.mode = "auto")
        /\ o.mode # "auto" => o.feather = Absent}
    \cup MalformedOptions(image)

\* the destructuring defaults of lines 116-121
withDefaults(o) ==
    [colorTol |-> IF o.colorTol = Absent THEN DefaultColorTol ELSE o.colorTol[1],
     tileGuess |-> IF o.tileGuess = Absent THEN DefaultTileGuess ELSE o.tileGuess[1],
     gradKeep |-> IF o.gradKeep = Absent THEN DefaultGradKeep ELSE o.gradKeep[1],
     feather |-> IF o.feather = Absent THEN DefaultFeather * FeatherUnit ELSE o.feather[1]]

Images ==
    FramedImages \cup SpeckImages \cup LatticeImages \cup UniformImages
    \cup {CheckerImage(CheckerTile, White, Black, Red)}

-----------------------------------------------------------------------------
(* The call *)

NoPixels == <<>>

\* the modal is not part of the call: its state stays as it is
EditorIdle ==
    /\ sticker = [imageUrl |-> "none", originalImageUrl |-> "none"]
    /\ seedPoints = <<>>
    /\ previewUrl = <<"none", "none", <<>>>>
    /\ isProcessing = FALSE
    /\ runs = <<>>
    /\ writer = 0

\* no call of normalizeImageSize
ResizeIdle ==
    resize = [pc |-> "idle", w |-> 0, h |-> 0, maxDimension |-> 1, context |-> TRUE,
              outcome |-> "none", width |-> 0, height |-> 0]

\* one invocation only
SingleCall == calls = [running |-> 1, waiting |-> <<>>, finished |-> <<>>]

\* no feather on its own
BlurIdle == blur = [w |-> 0, h |-> 0, radius |-> 0, mask |-> <<>>, separable |-> <<>>, box |-> <<>>]

\* the page before it is initialised: the useState defaults of lines 2890-2906
PageIdle ==
    /\ expressions = <<>>
    /\ stickers = <<>>
    /\ userImage = FALSE
    /\ transparentBackground = TRUE
    /\ isLoading = FALSE
    /\ editingSticker = <<>>
    /\ generating = <<>>

Init ==
    /\ EditorIdle
    /\ ResizeIdle
    /\ SingleCall
    /\ BlurIdle
    /\ PageIdle
    /\ img \in Images
    /\ opts \in Passed(img)
    /\ pc = "idle"
    /\ data = NoPixels
    /\ refLab = <<>>
    /\ bestPeriod = 0
    /\ like = NoPixels
    /\ seen = NoPixels
    /\ queue = NoPixels
    /\ head = 0
    /\ tail = 0
    /\ at = 0
    /\ mask = NoPixels
    /\ result = "none"
    /\ thrown = "none"

\* lines 112-124: the call runs up to the await of loadImage
Call ==
    /\ pc = "idle"
    /\ pc' = "loading"
    /\ UNCHANGED <<img, opts, data, refLab, bestPeriod, like, seen, queue, head, tail, at, mask, result, thrown>>
    /\ UNCHANGED outsideEngine

\* a catch that passes the failure on to the caller
rethrowFromCatch ==
    /\ pc' = "done"
    /\ result' = "rejected"
    /\ UNCHANGED <<img, opts, data, refLab, bestPeriod, like, seen, queue, head, tail, at, mask>>
    /\ UNCHANGED outsideEngine

\* the catch of lines 323-326
resolveWithImageUrl ==
    /\ pc' = "done"
    /\ result' = "imageUrl"
    /\ UNCHANGED <<img, opts, data, refLab, bestPeriod, like, seen, queue, head, tail, at, mask>>
    /\ UNCHANGED outsideEngine

\* image.onerror: loadImage rejects
LoadFails ==
    /\ pc = "loading"
    /\ thrown' = "load"
    /\ resolveWithImageUrl

\* canvas.getContext returns null (line 130)
NoContext ==
    /\ pc = "loading"
    /\ thrown' = "context"
    /\ resolveWithImageUrl

\* getImageData throws (line 135): always on a canvas without area, and on
\* any canvas that a cross-origin image has tainted
ReadThrows ==
    /\ pc = "loading"
    /\ thrown' = "read"
    /\ resolveWithImageUrl

\* a call that takes over the visited bitmap a call before it left behind,
\* when it has the right size
DecodeKeepingSeen ==
    /\ pc = "loading"
    /\ img.w * img.h > 0
    /\ pc' = "seedX"
    /\ data' = img.px
    /\ refLab' = backgroundLab(img.px, img.w, img.h)
    /\ bestPeriod' = findBestPeriod(img.px, img.w, img.h, refLab', withDefaults(opts).colorTol,
                                    withDefaults(opts).tileGuess)
    /\ like' = [p \in 0..(img.w * img.h - 1) |->
                    likeAt(img.px, img.w, img.h, p, refLab', bestPeriod', withDefaults(opts))]
    /\ seen' = IF DOMAIN seen = 0..(img.w * img.h - 1) THEN seen
               ELSE [p \in 0..(img.w * img.h - 1) |-> 0]
    /\ queue' = [k \in 0..(img.w * img.h - 1) |-> Unwritten]
    /\ head' = 0
    /\ tail' = 0
    /\ at' = 0
    /\ UNCHANGED <<img, opts, mask, result, thrown>>
    /\ UNCHANGED outsideEngine

\* lines 124-250: the image loads, the buffer is read and the like map built
Decode ==
    /\ pc = "loading"
    /\ img.w * img.h > 0
    /\ pc' = "seedX"
    /\ data' = img.px
    /\ refLab' = backgroundLab(img.px, img.w, img.h)
    /\ bestPeriod' = findBestPeriod(img.px, img.w, img.h, refLab', withDefaults(opts).colorTol,
                                    withDefaults(opts).tileGuess)
    /\ like' = [p \in 0..(img.w * img.h - 1) |->
                    likeAt(img.px, img.w, img.h, p, refLab', bestPeriod', withDefaults(opts))]
    /\ seen' = [p \in 0..(img.w * img.h - 1) |-> 0]
    /\ queue' = [k \in 0..(img.w * img.h - 1) |-> Unwritten]
    /\ head' = 0
    /\ tail' = 0
    /\ at' = 0
    /\ UNCHANGED <<img, opts, mask, result, thrown>>
    /\ UNCHANGED outsideEngine

\* one turn of the loop of lines 269-273: the top and the bottom pixel of column `at`
SeedColumn ==
    /\ pc = "seedX"
    /\ LET top == seedPixel([seen |-> seen, queue |-> queue, tail |-> tail], like, at, 0, img.w)
           st == seedPixel(top, like, at, img.h - 1, img.w)
       IN /\ seen' = st.seen
          /\ queue' = st.queue
          /\ tail' = st.tail
    /\ IF at + 1 < img.w THEN pc' = "seedX" /\ at' = at + 1 ELSE pc' = "seedY" /\ at' = 0
    /\ UNCHANGED <<img, opts, data, refLab, bestPeriod, like, head, mask, result, thrown>>
    /\ UNCHANGED outsideEngine

\* one turn of the loop of lines 274-279: the left and the right pixel of row `at`
SeedRow ==
    /\ pc = "seedY"
    /\ LET left == seedPixel([seen |-> seen, queue |-> queue, tail |-> tail], like, 0, at, img.w)
           st == seedPixel(left, like, img.w - 1, at, img.w)
       IN /\ seen' = st.seen
          /\ queue' = st.queue
          /\ tail' = st.tail
    /\ IF at + 1 < img.h THEN pc' = "seedY" /\ at' = at + 1 ELSE pc' = "grow" /\ at' = 0
    /\ UNCHANGED <<img, opts, data, refLab, bestPeriod, like, head, mask, result, thrown>>
    /\ UNCHANGED outsideEngine

\* a turn of the loop that leaves head where it is
GrowStepStalled ==
    /\ pc = "grow"
    /\ head < tail
    /\ LET x == queue[head][1]
           y == queue[head][2]
           st == visitNeighbours([seen |-> seen, queue |-> queue, tail |-> tail],
                                 like, x, y, 1, img.w, img.h)
       IN /\ like' = [like EXCEPT ![y * img.w + x] = LikeOne]
          /\ seen' = st.seen
          /\ queue' = st.queue
          /\ tail' = st.tail
    /\ UNCHANGED <<pc, img, opts, data, refLab, bestPeriod, head, at, mask, result, thrown>>
    /\ UNCHANGED outsideEngine

\* one turn of the loop of lines 288-305
GrowStep ==
    /\ pc = "grow"
    /\ head < tail
    /\ LET x == queue[head][1]
           y == queue[head][2]
           st == visitNeighbours([seen |-> seen, queue |-> queue, tail |-> tail],
                                 like, x, y, 1, img.w, img.h)
       IN /\ like' = [like EXCEPT ![y * img.w + x] = LikeOne]
          /\ seen' = st.seen
          /\ queue' = st.queue
          /\ tail' = st.tail
    /\ head' = head + 1
    /\ UNCHANGED <<pc, img, opts, data, refLab, bestPeriod, at, mask, result, thrown>>
    /\ UNCHANGED outsideEngine

\* lines 307-322: the loop has ended; mask, feather, alpha, encode
Finish ==
    /\ pc = "grow"
    /\ head >= tail
    /\ LET o == withDefaults(opts)
           m == featheredMask(binaryMask(like), img.w, img.h, o.feather)
       IN /\ mask' = m
          /\ data' = writeAlpha(data, m)
    /\ pc' = "done"
    /\ result' = "png"
    /\ UNCHANGED <<img, opts, refLab, bestPeriod, like, seen, queue, head, tail, at, thrown>>
    /\ UNCHANGED outsideEngine

Next ==
    \/ Call
    \/ LoadFails
    \/ NoContext
    \/ ReadThrows
    \/ Decode
    \/ SeedColumn
    \/ SeedRow
    \/ GrowStep
    \/ Finish

Spec == Init /\ [][Next]_vars

\* The loop of lines 288-305 is one synchronous piece of code: once entered,
\* its next turn is always taken.
SpecFair == Init /\ [][Next]_vars /\ WF_vars(GrowStep)

-----------------------------------------------------------------------------
(* TransparencyEditorModal: the debounced effect and the seed handlers *)

MaxRuns == 5

MaxSeeds == 2

\* a url value the modal can hold: the url itself, or the PNG that a call on
\* the url with the seeds made
Image(url) == <<"image", url, <<>>>>

Png(url, seeds) == <<"png", url, seeds>>

NoUrl == "null"

NoImage == <<"none", "none", <<>>>>

Closed == [imageUrl |-> "none", originalImageUrl |-> "none"]

\* the stickers the modal is shown: two with an original, one that shares its
\* original with another, one without original
Stickers ==
    {[imageUrl |-> "cutA", originalImageUrl |-> "rawA"],
     [imageUrl |-> "recutA", originalImageUrl |-> "rawA"],
     [imageUrl |-> "cutB", originalImageUrl |-> "rawB"],
     [imageUrl |-> "cutC", originalImageUrl |-> NoUrl]}

\* the places a click makes a seed at
SeedPlaces == {"p", "q"}

Outcomes == {"png", "imageUrl"}

\* what makeBackgroundTransparent resolves with: the PNG, or the url it was
\* given when something was thrown inside it
resolved(url, seeds, outcome) == IF outcome = "png" THEN Png(url, seeds) ELSE Image(url)

\* the cleanup of lines 2229-2232 that forgets to set cancelled
cleanupTimerOnly(run) ==
    [run EXCEPT !.stage = IF @ = "waiting" THEN "cleared" ELSE @]

\* the cleanup of lines 2229-2232 on one run of the effect
cleanup(run) ==
    [run EXCEPT !.cancelled = TRUE, !.stage = IF @ = "waiting" THEN "cleared" ELSE @]

\* React runs the cleanup of the last run of the effect before the next one
cleanupLast(rs) ==
    IF rs = <<>> THEN rs ELSE [rs EXCEPT ![Len(rs)] = cleanup(rs[Len(rs)])]

\* a body of the effect that sets isProcessing and sets no timer
startedWithoutTimer(rs, seeds, url) ==
    IF url = NoUrl THEN rs
    ELSE Append(rs, [seeds |-> seeds, url |-> url, cancelled |-> FALSE,
                     stage |-> "cleared", value |-> NoImage, ignored |-> FALSE])

\* the body of the effect, lines 2203-2228, with the seeds and the url of the
\* render it belongs to: no run without an original
started(rs, seeds, url) ==
    IF url = NoUrl THEN rs
    ELSE Append(rs, [seeds |-> seeds, url |-> url, cancelled |-> FALSE,
                     stage |-> "waiting", value |-> NoImage, ignored |-> FALSE])

\* one re-run of the effect after a render with new dependencies
rerun(rs, seeds, url) == started(cleanupLast(rs), seeds, url)

Mounted == sticker # Closed

EngineIdle ==
    /\ pc = "idle"
    /\ img = [w |-> 0, h |-> 0, px |-> NoPixels]
    /\ opts = [colorTol |-> Absent, tileGuess |-> Absent, gradKeep |-> Absent, feather |-> Absent,
               seedPoints |-> <<>>, mode |-> "auto"]
    /\ data = NoPixels
    /\ refLab = <<>>
    /\ bestPeriod = 0
    /\ like = NoPixels
    /\ seen = NoPixels
    /\ queue = NoPixels
    /\ head = 0
    /\ tail = 0
    /\ at = 0
    /\ mask = NoPixels
    /\ result = "none"
    /\ thrown = "none"

InitEditor == EngineIdle /\ EditorIdle /\ ResizeIdle /\ SingleCall /\ BlurIdle /\ PageIdle

\* the modal is mounted on s (line 3277): the two effects run, and the new
\* seed array of the first makes the second run again
Open(s) ==
    /\ ~Mounted
    /\ Len(started(started(runs, <<>>, s.originalImageUrl), <<>>, s.originalImageUrl)) <= MaxRuns
    /\ sticker' = s
    /\ seedPoints' = <<>>
    /\ previewUrl' = Image(s.imageUrl)
    /\ isProcessing' = (s.originalImageUrl # NoUrl)
    /\ runs' = rerun(started(runs, <<>>, s.originalImageUrl), <<>>, s.originalImageUrl)
    /\ writer' = 0
    /\ UNCHANGED outsideEditor

\* the modal is unmounted (setEditingSticker(null)): the cleanup runs and the
\* state is gone
Close ==
    /\ Mounted
    /\ sticker' = Closed
    /\ seedPoints' = <<>>
    /\ previewUrl' = NoImage
    /\ isProcessing' = FALSE
    /\ runs' = cleanupLast(runs)
    /\ writer' = 0
    /\ UNCHANGED outsideEditor

\* the sticker prop changes under the mounted modal: the first effect
\* (2196-2200) resets seeds and preview; the second runs with the seeds of
\* this render if the original changed, and again after the seeds are reset
ChangeSticker(s) ==
    /\ Mounted
    /\ s # sticker
    /\ LET first == IF s.originalImageUrl = sticker.originalImageUrl THEN runs
                    ELSE rerun(runs, seedPoints, s.originalImageUrl)
           last == rerun(first, <<>>, s.originalImageUrl)
       IN /\ Len(last) <= MaxRuns
          /\ runs' = last
    /\ sticker' = s
    /\ seedPoints' = <<>>
    /\ previewUrl' = Image(s.imageUrl)
    /\ isProcessing' = (s.originalImageUrl # NoUrl)
    /\ writer' = 0
    /\ UNCHANGED outsideEditor

\* the seeds changed: the render and the effect that follow a setSeedPoints
seedsSet(seeds) ==
    /\ seedPoints' = seeds
    /\ runs' = rerun(runs, seeds, sticker.originalImageUrl)
    /\ isProcessing' = (sticker.originalImageUrl # NoUrl)
    /\ UNCHANGED <<sticker, previewUrl, writer>>
    /\ UNCHANGED outsideEditor

\* handlePreviewClick (2243-2264) with the click on the image
AddSeed(place) ==
    /\ Mounted
    /\ ~isProcessing
    /\ sticker.originalImageUrl # NoUrl
    /\ Len(seedPoints) < MaxSeeds
    /\ Len(runs) < MaxRuns
    /\ seedsSet(Append(seedPoints, place))

\* handleUndo (2266-2268); its button is disabled without seeds
Undo ==
    /\ Mounted
    /\ seedPoints # <<>>
    /\ Len(runs) < MaxRuns
    /\ seedsSet(SubSeq(seedPoints, 1, Len(seedPoints) - 1))

\* handleResetSeeds (2270-2272); its button is disabled without seeds
ResetSeeds ==
    /\ Mounted
    /\ seedPoints # <<>>
    /\ Len(runs) < MaxRuns
    /\ seedsSet(<<>>)

\* the timeout of run r fires (2209-2216): the call is made
TimerFires(r) ==
    /\ runs[r].stage = "waiting"
    /\ runs' = [runs EXCEPT ![r].stage = "pending"]
    /\ UNCHANGED <<sticker, seedPoints, previewUrl, isProcessing, writer>>
    /\ UNCHANGED outsideEditor

\* the call of run r resolves and its then-callback runs (2216-2221)
CallResolves(r, outcome) ==
    /\ runs[r].stage = "pending"
    /\ LET value == resolved(runs[r].url, runs[r].seeds, outcome)
       IN /\ runs' = [runs EXCEPT ![r].stage = "settled", ![r].value = value,
                                  ![r].ignored = runs[r].cancelled]
          /\ IF runs[r].cancelled
             THEN UNCHANGED <<previewUrl, isProcessing, writer>>
             ELSE /\ previewUrl' = value
                  /\ isProcessing' = FALSE
                  /\ writer' = r
    /\ UNCHANGED <<sticker, seedPoints>>
    /\ UNCHANGED outsideEditor

NextEditor ==
    \/ \E s \in Stickers : Open(s)
    \/ Close
    \/ \E s \in Stickers : ChangeSticker(s)
    \/ \E place \in SeedPlaces : AddSeed(place)
    \/ Undo
    \/ ResetSeeds
    \/ \E r \in DOMAIN runs : TimerFires(r)
    \/ \E r \in DOMAIN runs, outcome \in Outcomes : CallResolves(r, outcome)

SpecEditor == InitEditor /\ [][NextEditor]_vars

-----------------------------------------------------------------------------
(* Properties of the modal *)

AllSettled == \A r \in DOMAIN runs : runs[r].stage \in {"settled", "cleared"}

\* the run of the effect that belongs to the current seeds and sticker
LatestIsLive == runs # <<>> /\ ~runs[Len(runs)].cancelled

\* C6: a callback that sets previewUrl belongs to the latest run of the
\* effect, and once every call has resolved previewUrl is the result of the
\* latest run, the one made with the current seed list.
TheoremC6 ==
    /\ [][writer' # writer /\ writer' # 0 => writer' = Len(runs')]_vars
    /\ []((AllSettled /\ LatestIsLive) =>
            /\ writer = Len(runs)
            /\ previewUrl = runs[Len(runs)].value
            /\ previewUrl \in {resolved(sticker.originalImageUrl, seedPoints, o) : o \in Outcomes})

\* an earlier call resolved after the seeds had changed and was ignored, and
\* the latest call has resolved with another value
WitnessC6 ==
    /\ AllSettled
    /\ LatestIsLive
    /\ writer = Len(runs)
    /\ \E r \in DOMAIN runs :
            /\ r < Len(runs)
            /\ runs[r].ignored
            /\ runs[r].value # previewUrl
            /\ runs[r].value[1] = "png"

-----------------------------------------------------------------------------
(* Properties of the call *)

Succeeded == pc = "done" /\ result = "png"

Pixels == 0..(img.w * img.h - 1)

\* C1: the call never rejects, and when something was thrown inside it, it
\* resolves with the imageUrl it was given.
TheoremC1 ==
    pc = "done" => /\ result \in {"png", "imageUrl"}
                   /\ thrown # "none" => result = "imageUrl"

WitnessC1 == pc = "done" /\ thrown = "context" /\ result = "imageUrl" /\ img.w * img.h > 0

\* C2: on an image whose pixels all have one colour, a successful call ends
\* with mask 1 and alpha 0 at every pixel, in every mode.
TheoremC2 ==
    (Succeeded /\ IsUniform(img)) =>
        \A p \in Pixels : mask[p] = MaskOne /\ data[p][4] = 0

WitnessC2 ==
    /\ Succeeded
    /\ IsUniform(img)
    /\ img.w = MaxUniformSide
    /\ bestPeriod = MinPeriod
    /\ opts.mode = "auto+seed"

\* p is a pixel of the disk of the checkerboard image
InDisk(p) == rgbOf(img.px[p]) = Red

\* the radius the feather of the call works with
featherReach == LET f == withDefaults(opts).feather IN IF f > 0 THEN Max(1, f \div FeatherUnit) ELSE 0

\* p is further than twice the feather radius from every pixel of the other kind
OutsideBand(p) ==
    \A q \in Pixels :
        (InDisk(q) # InDisk(p)) =>
            Max(Abs((p % img.w) - (q % img.w)), Abs((p \div img.w) - (q \div img.w))) > 2 * featherReach

\* C3: on the checkerboard with a disk in its centre and tileGuess the tile
\* size, a successful call has mask 0 on the disk and mask 1 on the
\* checkerboard, outside a band around the disk edge as wide as the feather.
ClaimC3 ==
    (Succeeded /\ IsChecker(img)) =>
        \A p \in Pixels :
            OutsideBand(p) => mask[p] = (IF InDisk(p) THEN 0 ELSE MaskOne)

\* C4: after a successful call the alpha of every pixel is the whole number
\* nearest to (1 - mask) * 255, the upper one at a tie, whatever alpha the
\* pixel had; stated in 256ths, with 255 * (1 - mask) taken in two parts.
TheoremC4 ==
    Succeeded =>
        \A p \in Pixels :
            LET rest == MaskOne - mask[p]
                scaled == 255 * (rest \div AlphaSplit) + (255 * (rest % AlphaSplit)) \div AlphaSplit
                a == data[p][4]
            IN /\ a \in 0..255
               /\ (2 * a - 1) * 128 <= scaled
               /\ scaled < (2 * a + 1) * 128

\* a pixel that came with alpha 128 has a mask strictly between 0 and 1 and a
\* new alpha, and some alpha is the result of rounding up
WitnessC4 ==
    /\ Succeeded
    /\ \E p \in Pixels :
            /\ img.px[p][4] = HalfAlpha
            /\ mask[p] \notin {0, MaskOne}
            /\ data[p][4] # HalfAlpha
    /\ \E q \in Pixels :
            LET rest == MaskOne - mask[q]
            IN data[q][4] * 256 >
                   255 * (rest \div AlphaSplit) + (255 * (rest % AlphaSplit)) \div AlphaSplit

\* C5: the call changes nothing but alpha: from the read of the buffer on,
\* its size is the size of the input and the R, G and B of every pixel are
\* those decoded from the input.
TheoremC5 ==
    pc \in {"seedX", "seedY", "grow"} \/ Succeeded =>
        /\ DOMAIN data = DOMAIN img.px
        /\ \A p \in Pixels : rgbOf(data[p]) = rgbOf(img.px[p])

WitnessC5 ==
    /\ Succeeded
    /\ \E p \in Pixels : data[p][4] = 0 /\ rgbOf(data[p]) # <<0, 0, 0>> /\ img.px[p][4] = Opaque
    /\ \E p \in Pixels : data[p][4] = Opaque

\* C9: in every state 0 <= head <= tail <= width * height, and the entries
\* of the queue below tail are written and are different pixels.
TheoremC9 ==
    /\ 0 <= head /\ head <= tail /\ tail <= img.w * img.h
    /\ \A k \in 0..(tail - 1) : queue[k] # Unwritten
    /\ \A k, l \in 0..(tail - 1) : k # l => queue[k] # queue[l]

WitnessC9 == pc = "grow" /\ head = tail /\ tail = img.w * img.h /\ img.w > 1 /\ img.h > 1

\* C8: the loop ends, with head equal to tail, for every image, and the
\* entries taken from the queue are different pixels.
TheoremC8 ==
    /\ (pc = "grow") ~> (pc = "grow" /\ head = tail)
    /\ [](\A k, l \in 0..(head - 1) : k # l => queue[k] # queue[l])

\* the loop has ended after taking some pixels, but not all, from the queue
WitnessC8 == pc = "grow" /\ head = tail /\ head > 1 /\ head < img.w * img.h

\* the pixel a seed is put on
seedIndex == MiddleSeed(img).y * img.w + MiddleSeed(img).x

\* the colour of p is further than colorTol and nearer than 1.35 * colorTol
\* from both colours of the background
InToleranceBand(p) ==
    \A k \in {1, 2} :
        /\ dcOf(data, p, refLab, k) > withDefaults(opts).colorTol * 100
        /\ dcOf(data, p, refLab, k) * 100 < withDefaults(opts).colorTol * 100 * 135

\* C10: a pixel whose colour is between colorTol and 1.35 * colorTol from the
\* background is in the mask when a forced seed is on it and the mode is
\* seed or auto+seed, and is not in the mask in mode auto.
ClaimC10 ==
    (Succeeded /\ InToleranceBand(seedIndex)) =>
        /\ (opts.mode \in {"seed", "auto+seed"} /\ opts.seedPoints = <<MiddleSeed(img)>>)
                => like[seedIndex] >= LikeOne
        /\ opts.mode = "auto" => like[seedIndex] < LikeOne

\* C11: on a 1 x 1 image the call does not reject and gives back the
\* original image: it resolves with imageUrl, or with pixels equal to the
\* input's.
ClaimC11 ==
    (pc = "done" /\ img.w = 1 /\ img.h = 1) =>
        /\ result # "rejected"
        /\ result = "imageUrl" \/ data = img.px

-----------------------------------------------------------------------------
(* normalizeImageSize of src/utils/image.ts *)

MaxImageSide == 22

MaxDimension == 15

\* a double keeps 53 significant bits
DoubleBits == 53

RECURSIVE powerMod(_, _)
\* 2^e modulo n
powerMod(e, n) == IF e = 0 THEN 1 % n ELSE (2 * powerMod(e - 1, n)) % n

RECURSIVE scaleShift(_, _, _)
\* the least j, from j upwards, with maxDimension * 2^j >= largestSide:
\* scale = maxDimension / largestSide lies in [2^-j, 2^(1-j))
scaleShift(maxDimension, largestSide, j) ==
    IF maxDimension * 2^j >= largestSide THEN j ELSE scaleShift(maxDimension, largestSide, j + 1)

RECURSIVE floorLog2(_)
floorLog2(n) == IF n < 2 THEN 0 ELSE 1 + floorLog2(n \div 2)

\* the sign of (the double scale) - (the quotient maxDimension / largestSide),
\* from the remainder of the division that rounds to DoubleBits bits, ties to even
scaleError(maxDimension, largestSide) ==
    LET e == (DoubleBits - 1) + scaleShift(maxDimension, largestSide, 0)
        r == (maxDimension * powerMod(e, largestSide)) % largestSide
        odd == (maxDimension * powerMod(e, 2 * largestSide)) % (2 * largestSide) >= largestSide
    IN IF r = 0 THEN 0
       ELSE IF 2 * r > largestSide \/ (2 * r = largestSide /\ odd) THEN 1
       ELSE -1

\* a Math.round that cuts the fraction off
roundedProductDown(side, maxDimension, largestSide) == (side * maxDimension) \div largestSide

\* Math.round(side * scale) of lines 23-25, scale the double maxDimension /
\* largestSide and the product a double.  Off a tie the two roundings are far
\* too small to matter for sides of this size, and the result is the nearest
\* whole number to side * maxDimension / largestSide.  At a tie k + 1/2 the
\* product is k + 1/2 (and rounds to k + 1) unless the scale was rounded down
\* by more than half of the spacing of the doubles below k + 1/2.
roundedProduct(side, maxDimension, largestSide) ==
    LET twice == 2 * side * maxDimension
        tie == twice % largestSide = 0 /\ (twice \div largestSide) % 2 = 1
        k == (twice \div largestSide - 1) \div 2
        j == scaleShift(maxDimension, largestSide, 0)
        e == (DoubleBits - 1) + j
        r == (maxDimension * powerMod(e, largestSide)) % largestSide
        \* the spacing of the doubles below k + 1/2, times 2^e, is 2^g
        g == IF k = 0 THEN j - 2 ELSE floorLog2(2 * k + 1) - 1 + j
        keepsTie == IF g >= 0 THEN 2 * side * r <= largestSide * 2^g
                    ELSE 2 * side * r * 2^(0 - g) <= largestSide
    IN IF ~tie THEN (twice + largestSide) \div (2 * largestSide)
       ELSE IF scaleError(maxDimension, largestSide) >= 0 \/ keepsTie THEN k + 1
       ELSE k

\* lines 23-25: one side of the result
scaledSide(side, maxDimension, largestSide) ==
    Max(1, roundedProduct(side, maxDimension, largestSide))

\* a loaded image has two positive sides, or none when it has no size of its own
ImageSizes ==
    {<<0, 0>>} \cup ((1..MaxImageSide) \X (1..MaxImageSide))

\* context: whether canvas.getContext('2d') of line 30 gives a context
ResizeInputs ==
    {[pc |-> "idle", w |-> size[1], h |-> size[2], maxDimension |-> m, context |-> c,
      outcome |-> "none", width |-> 0, height |-> 0] :
        size \in ImageSizes, m \in 1..MaxDimension, c \in BOOLEAN}

InitResize == EngineIdle /\ EditorIdle /\ SingleCall /\ BlurIdle /\ PageIdle /\ resize \in ResizeInputs

largestSide == Max(resize.w, resize.h)

\* a return that reports no side longer than maxDimension
givenBackClamped(r) ==
    [r EXCEPT !.pc = "done", !.outcome = "same",
              !.width = Min(r.w, r.maxDimension), !.height = Min(r.h, r.maxDimension)]

\* return { dataUrl, width: img.width, height: img.height } of lines 20 and 32
givenBack(r) ==
    [r EXCEPT !.pc = "done", !.outcome = "same", !.width = r.w, !.height = r.h]

\* lines 12-16: the call runs up to the await of loadImage
ResizeCall ==
    /\ resize.pc = "idle"
    /\ resize' = [resize EXCEPT !.pc = "loading"]
    /\ UNCHANGED outsideResize

\* loadImage rejects and nothing catches it
ResizeLoadFails ==
    /\ resize.pc = "loading"
    /\ resize' = [resize EXCEPT !.pc = "done", !.outcome = "rejected"]
    /\ UNCHANGED outsideResize

\* lines 19-21: nothing to do, the image is given back
ResizeKeeps ==
    /\ resize.pc = "loading"
    /\ largestSide = 0 \/ largestSide <= resize.maxDimension
    /\ resize' = givenBack(resize)
    /\ UNCHANGED outsideResize

\* lines 23-33: no 2D context, the image is given back
ResizeNoContext ==
    /\ resize.pc = "loading"
    /\ ~(largestSide = 0 \/ largestSide <= resize.maxDimension)
    /\ ~resize.context
    /\ resize' = givenBack(resize)
    /\ UNCHANGED outsideResize

\* lines 23-38: the image is drawn at the new size
ResizeScales ==
    /\ resize.pc = "loading"
    /\ ~(largestSide = 0 \/ largestSide <= resize.maxDimension)
    /\ resize.context
    /\ resize' = [resize EXCEPT
            !.pc = "done", !.outcome = "scaled",
            !.width = scaledSide(resize.w, resize.maxDimension, largestSide),
            !.height = scaledSide(resize.h, resize.maxDimension, largestSide)]
    /\ UNCHANGED outsideResize

NextResize ==
    \/ ResizeCall
    \/ ResizeLoadFails
    \/ ResizeKeeps
    \/ ResizeNoContext
    \/ ResizeScales

SpecResize == InitResize /\ [][NextResize]_vars

-----------------------------------------------------------------------------
(* Properties of normalizeImageSize *)

TooLarge == largestSide > resize.maxDimension

longerOut == Max(resize.width, resize.height)

shorterIn == Min(resize.w, resize.h)

shorterOut == Min(resize.width, resize.height)

\* C12 as claimed: a call on an image whose longer side exceeds maxDimension
\* returns a longer side equal to maxDimension and a shorter side equal to
\* shorter * maxDimension / longer rounded to the nearest whole number (a half
\* upwards) and at least 1.
ClaimC12 ==
    (resize.pc = "done" /\ TooLarge) =>
        /\ resize.outcome \in {"same", "scaled"}
        /\ longerOut = resize.maxDimension
        /\ shorterOut = Max(1, (2 * shorterIn * resize.maxDimension + largestSide)
                                    \div (2 * largestSide))

\* C12: when the call on an image whose longer side exceeds maxDimension has
\* drawn the image at the new size, the longer side is maxDimension and the
\* shorter side is at least 1 and, unless it is the 1 that replaces a 0, no
\* further than one half from shorter * maxDimension / longer (at a tie it
\* is either neighbour); so each side is less than 1 pixel off the exact
\* aspect ratio.
TheoremC12 ==
    (resize.pc = "done" /\ TooLarge /\ resize.outcome = "scaled") =>
        /\ longerOut = resize.maxDimension
        /\ shorterOut >= 1
        /\ \/ shorterOut = 1 /\ 2 * shorterIn * resize.maxDimension < largestSide
           \/ 2 * Abs(shorterOut * largestSide - shorterIn * resize.maxDimension) <= largestSide
        /\ Abs(resize.width * largestSide - resize.w * resize.maxDimension) < largestSide
        /\ Abs(resize.height * largestSide - resize.h * resize.maxDimension) < largestSide

\* a scaled result whose shorter side is a tie that went down
WitnessC12 ==
    /\ resize.pc = "done"
    /\ TooLarge
    /\ resize.outcome = "scaled"
    /\ 2 * shorterOut * largestSide + largestSide = 2 * shorterIn * resize.maxDimension
    /\ shorterOut >= 1

-----------------------------------------------------------------------------
(* Properties of the mask *)

\* line 314: Math.max(1, Math.floor(feather)), feather in halves
radiusOf(feather) == Max(1, feather \div FeatherUnit)

InUnitRange(m) == \A p \in DOMAIN m : 0 <= m[p] /\ m[p] <= MaskOne

\* C13: every mask value is between 0 and 1 after the binary conversion,
\* after the horizontal pass and after the vertical pass of the feather, and
\* every alpha the call writes is between 0 and 255.
TheoremC13 ==
    Succeeded =>
        LET feather == withDefaults(opts).feather
            binary == binaryMask(like)
            rows == featherRows(binary, img.w, img.h, radiusOf(feather)) @@ <<>>
            columns == featherColumns(rows, img.w, img.h, radiusOf(feather)) @@ <<>>
        IN /\ InUnitRange(binary)
           /\ feather > 0 => InUnitRange(rows) /\ InUnitRange(columns) /\ mask = columns
           /\ feather <= 0 => mask = binary
           /\ InUnitRange(mask)
           /\ \A p \in Pixels : 0 <= data[p][4] /\ data[p][4] <= Opaque

\* a mask that both passes have blurred: a value strictly inside the range
\* after the horizontal pass and after the vertical pass, with radius 1 and
\* with a larger radius
FeatheredInside(wide) ==
    /\ Succeeded
    /\ LET feather == withDefaults(opts).feather
           rows == featherRows(binaryMask(like), img.w, img.h, radiusOf(feather)) @@ <<>>
       IN /\ feather > 0
          /\ (radiusOf(feather) > 1) = wide
          /\ \E p \in Pixels : 0 < rows[p] /\ rows[p] < MaskOne
          /\ \E p \in Pixels : 0 < mask[p] /\ mask[p] < MaskOne /\ mask[p] # rows[p]
          /\ \E p \in Pixels : 0 < data[p][4] /\ data[p][4] < Opaque

WitnessC13 == FeatheredInside(TRUE)

\* the feathers compared: none, below 1, and the default
FeatherSteps == 0..(DefaultFeather * FeatherUnit)

\* pixels side by side or one above the other
Adjacent(p, q) ==
    \/ q = p + 1 /\ q % img.w # 0
    \/ q = p + img.w

\* the fully transparent pixels of a mask
FullyTransparent(m) == {p \in DOMAIN m : m[p] = MaskOne}

\* the steps of a mask between two adjacent pixels on the two sides of the
\* edge of the cutout
edgeSteps(m, binary) ==
    {Abs(m[pair[1]] - m[pair[2]]) :
        pair \in {pq \in Pixels \X Pixels :
                    Adjacent(pq[1], pq[2]) /\ binary[pq[1]] # binary[pq[2]]}}

largestEdgeStep(m, binary) ==
    LET steps == edgeSteps(m, binary)
    IN IF steps = {} THEN 0 ELSE CHOOSE s \in steps : \A t \in steps : t <= s

\* the final masks of one visited set, one for each feather
masksByFeather ==
    [f \in FeatherSteps |-> featheredMask(binaryMask(like), img.w, img.h, f) @@ <<>>] @@ <<>>

\* C14 as claimed, first half: a larger feather does not shrink the set of
\* fully transparent pixels
InteriorKept ==
    Succeeded =>
        LET masks == masksByFeather
        IN \A f \in FeatherSteps : \A g \in FeatherSteps :
             f <= g => FullyTransparent(masks[f]) \subseteq FullyTransparent(masks[g])

\* C14 as claimed, second half: a larger feather does not increase the
\* largest step of the mask across the edge of the cutout
EdgeStepKept ==
    Succeeded =>
        LET masks == masksByFeather
            binary == binaryMask(like)
        IN \A f \in FeatherSteps : \A g \in FeatherSteps :
             f <= g => largestEdgeStep(masks[g], binary) <= largestEdgeStep(masks[f], binary)

Window(p, radius) ==
    {q \in Pixels : /\ Abs((q % img.w) - (p % img.w)) <= radius
                    /\ Abs((q \div img.w) - (p \div img.w)) <= radius}

-----------------------------------------------------------------------------
(* Two invocations of makeBackgroundTransparent *)

\* the images of the two calls: a frame one pixel in from the top left
PairImages ==
    {FramedImage(w, MaxSide, 1, 1, w - 1, MaxSide - 1, paper, ring, White) :
        w \in {MaxSide - 1, MaxSide}, paper \in {White, Near}, ring \in FramedPalette}

PairOptions ==
    {[colorTol |-> Absent, tileGuess |-> Absent, gradKeep |-> Absent, feather |-> f,
      seedPoints |-> <<>>, mode |-> "auto"] : f \in {Absent, Given(0)}}

PairInputs == {[img |-> i, opts |-> o] : i \in PairImages, o \in PairOptions}

\* both calls have been made; the second is suspended at its await (line 124),
\* where the only state of a call is its arguments
InitPair ==
    /\ EditorIdle
    /\ ResizeIdle
    /\ BlurIdle
    /\ PageIdle
    /\ \E first \in PairInputs, second \in PairInputs :
            /\ img = first.img
            /\ opts = first.opts
            /\ calls = [running |-> 1, waiting |-> <<[id |-> 2, img |-> second.img,
                                                      opts |-> second.opts]>>,
                        finished |-> <<>>]
    /\ pc = "idle"
    /\ data = NoPixels
    /\ refLab = <<>>
    /\ bestPeriod = 0
    /\ like = NoPixels
    /\ seen = NoPixels
    /\ queue = NoPixels
    /\ head = 0
    /\ tail = 0
    /\ at = 0
    /\ mask = NoPixels
    /\ result = "none"
    /\ thrown = "none"

\* the image of a suspended call loads before the image of the call that had
\* been followed so far: that call goes on, this one stays suspended
OtherLoadsFirst ==
    /\ pc = "loading"
    /\ calls.waiting # <<>>
    /\ img' = Head(calls.waiting).img
    /\ opts' = Head(calls.waiting).opts
    /\ calls' = [calls EXCEPT
            !.running = Head(calls.waiting).id,
            !.waiting = Append(Tail(calls.waiting),
                               [id |-> calls.running, img |-> img, opts |-> opts])]
    /\ UNCHANGED <<pc, data, refLab, bestPeriod, like, seen, queue, head, tail, at, mask, result,
                   thrown>>
    /\ UNCHANGED <<editorVars, resizeVars, blurVars, pageVars>>

\* the call that ran has settled and a suspended call goes on from its await;
\* what the call before it left in memory is still there
NextCallResumes ==
    /\ pc = "done"
    /\ calls.waiting # <<>>
    /\ img' = Head(calls.waiting).img
    /\ opts' = Head(calls.waiting).opts
    /\ calls' = [running |-> Head(calls.waiting).id,
                 waiting |-> Tail(calls.waiting),
                 finished |-> Append(calls.finished,
                                     [id |-> calls.running, img |-> img, opts |-> opts,
                                      result |-> result, thrown |-> thrown, data |-> data])]
    /\ pc' = "loading"
    /\ result' = "none"
    /\ thrown' = "none"
    /\ UNCHANGED <<data, refLab, bestPeriod, like, seen, queue, head, tail, at, mask>>
    /\ UNCHANGED <<editorVars, resizeVars, blurVars, pageVars>>

NextPair ==
    \/ Call
    \/ OtherLoadsFirst
    \/ LoadFails
    \/ NoContext
    \/ ReadThrows
    \/ Decode
    \/ SeedColumn
    \/ SeedRow
    \/ GrowStep
    \/ Finish
    \/ NextCallResumes

SpecPair == InitPair /\ [][NextPair]_vars

-----------------------------------------------------------------------------
(* A call on its own, from the load of the image to the bytes of its result *)

RECURSIVE seedColumns(_, _, _, _, _)
\* lines 269-273
seedColumns(st, lk, x, width, height) ==
    IF x >= width THEN st
    ELSE seedColumns(seedPixel(seedPixel(st, lk, x, 0, width), lk, x, height - 1, width),
                     lk, x + 1, width, height)

RECURSIVE seedRows(_, _, _, _, _)
\* lines 274-279
seedRows(st, lk, y, width, height) ==
    IF y >= height THEN st
    ELSE seedRows(seedPixel(seedPixel(st, lk, 0, y, width), lk, width - 1, y, width),
                  lk, y + 1, width, height)

RECURSIVE growAll(_, _, _, _, _)
\* lines 288-305, to the end of the queue; the value is the like map
growAll(st, lk, first, width, height) ==
    IF first >= st.tail THEN lk
    ELSE LET x == st.queue[first][1]
             y == st.queue[first][2]
         IN growAll(visitNeighbours(st, lk, x, y, 1, width, height),
                    [lk EXCEPT ![y * width + x] = LikeOne], first + 1, width, height)

\* lines 137-322 on a decoded image
pixelsAlone(image, options) ==
    LET o == withDefaults(options)
        n == image.w * image.h
        labs == backgroundLab(image.px, image.w, image.h)
        period == findBestPeriod(image.px, image.w, image.h, labs, o.colorTol, o.tileGuess)
        lk == [p \in 0..(n - 1) |-> likeAt(image.px, image.w, image.h, p, labs, period, o)] @@ <<>>
        fresh == [seen |-> [p \in 0..(n - 1) |-> 0],
                  queue |-> [k \in 0..(n - 1) |-> Unwritten],
                  tail |-> 0]
        seeded == seedRows(seedColumns(fresh, lk, 0, image.w, image.h), lk, 0, image.w, image.h)
        grown == growAll(seeded, lk, 0, image.w, image.h)
    IN writeAlpha(image.px, featheredMask(binaryMask(grown), image.w, image.h, o.feather))

-----------------------------------------------------------------------------
(* Properties of two invocations *)

\* a settled call has the result it has on its own: the pixels of a call on
\* its own, or the input url after a failure of its own
AsAlone(call) ==
    /\ call.result \in {"png", "imageUrl"}
    /\ call.result = "png" => call.data = pixelsAlone(call.img, call.opts)
    /\ call.result = "imageUrl" => call.thrown # "none"

\* C15: whichever of two calls goes on first from its await, each call
\* settles with the result it has when it is the only call.
TheoremC15 ==
    /\ \A k \in DOMAIN calls.finished : AsAlone(calls.finished[k])
    /\ pc = "done" =>
          AsAlone([img |-> img, opts |-> opts, result |-> result, thrown |-> thrown,
                   data |-> data])

\* the call made second has settled first and the call made first has run
\* after it on an image of the same size; the two cutouts differ, the
\* earlier one has a transparent pixel, and the later one has a pixel that is
\* transparent only because the traversal of that run reached it
WitnessC15 ==
    /\ pc = "done"
    /\ result = "png"
    /\ calls.running = 1
    /\ Len(calls.finished) = 1
    /\ calls.finished[1].id = 2
    /\ calls.finished[1].result = "png"
    /\ calls.finished[1].img.w = img.w
    /\ \E p \in Pixels : calls.finished[1].data[p][4] # data[p][4]
    /\ \E p \in Pixels : calls.finished[1].data[p][4] = 0
    /\ \E p \in Pixels : /\ data[p][4] = 0
                          /\ likeAt(img.px, img.w, img.h, p, refLab, bestPeriod,
                                    withDefaults(opts)) < LikeOne

-----------------------------------------------------------------------------
(* Properties of the options *)

\* C16: a call with malformed options (here a colour tolerance of 0) fails
\* loudly: its promise rejects.
ClaimC16 == (pc = "done" /\ Malformed(opts)) => result = "rejected"

\* what happens instead: the call resolves with a re-encoded copy of the image
\* in which no pixel has changed
SilentlyUnchanged ==
    /\ pc = "done"
    /\ Malformed(opts)
    /\ result = "png"
    /\ data = img.px

-----------------------------------------------------------------------------
(* Properties of the mask before the feather *)

UnreachedInMask ==
    /\ Succeeded
    /\ \E p \in Pixels :
        /\ seen[p] = 0
        /\ binaryMask(like)[p] = MaskOne
        /\ withDefaults(opts).feather = 0 => data[p][4] = 0

-----------------------------------------------------------------------------
(* Properties of the traversal *)

OnBorder(p) ==
    \/ p % img.w = 0
    \/ p % img.w = img.w - 1
    \/ p \div img.w = 0
    \/ p \div img.w = img.h - 1

\* side by side, or one above the other
FourConnected(p, q) ==
    \/ p \div img.w = q \div img.w /\ Abs(p - q) = 1
    \/ Abs(p - q) = img.w

\* touching at a corner
Diagonal(p, q) ==
    /\ Abs((p % img.w) - (q % img.w)) = 1
    /\ Abs((p \div img.w) - (q \div img.w)) = 1

Visited == {p \in DOMAIN seen : seen[p] = 1}

RECURSIVE joinedTo(_)
\* the visited pixels that a path of 4-connected visited pixels joins to `set`
joinedTo(set) ==
    LET more == {q \in Visited \ set : \E p \in set : FourConnected(p, q)}
    IN IF more = {} THEN set ELSE joinedTo(set \cup more)

\* C18: at every step of the traversal every visited pixel was admitted, and a
\* path of 4-connected visited pixels joins it to a visited pixel of the
\* border.
TheoremC18 ==
    pc \in {"seedX", "seedY", "grow", "done"} /\ DOMAIN seen = Pixels =>
        /\ \A p \in Visited : like[p] > LikeOne \div 2
        /\ joinedTo({p \in Visited : OnBorder(p)}) = Visited

\* the traversal has ended and has left out a pixel of the background colour
\* that no visited pixel touches but at a corner
WitnessC18 ==
    /\ Succeeded
    /\ withDefaults(opts).colorTol > 0
    /\ \E p \in Pixels :
        /\ ~OnBorder(p)
        /\ seen[p] = 0
        /\ like[p] > LikeOne \div 2
        /\ dcOf(data, p, refLab, 1) = 0
        /\ \E q \in Visited : Diagonal(p, q)
        /\ \A q \in Pixels : FourConnected(p, q) => seen[q] = 0

-----------------------------------------------------------------------------
(* Properties of the admission test *)

\* the smaller of the distances of pixel p to the two references, hundredths
nearestReference(p) == Min(dcOf(data, p, refLab, 1), dcOf(data, p, refLab, 2))

\* the edge rule leaves pixel p alone
OffEdge(p) == gradAt(data, img.w, img.h, p) <= withDefaults(opts).gradKeep * 10

HasVisitedNeighbour(q) == \E p \in Visited : FourConnected(p, q)

\* C19: a neighbour of a visited pixel is rejected when the smaller of its
\* distances to the two references is above the tolerance and, off the edges,
\* admitted when it is not above it, wherever the pixel is and whichever
\* reference is the nearer one.
ClaimC19 ==
    (Succeeded /\ ~Malformed(opts)) =>
        \A q \in Pixels :
            HasVisitedNeighbour(q) =>
                /\ nearestReference(q) > withDefaults(opts).colorTol * 100 => seen[q] = 0
                /\ (nearestReference(q) <= withDefaults(opts).colorTol * 100 /\ OffEdge(q))
                        => seen[q] = 1

\* what happens instead: a pixel of exactly the colour of the second
\* reference, off the edges and next to a visited pixel, is never admitted,
\* because the first reference is the one its coordinates select
SecondReferenceIgnored ==
    /\ Succeeded
    /\ ~Malformed(opts)
    /\ \E q \in Pixels :
        /\ HasVisitedNeighbour(q)
        /\ dcOf(data, q, refLab, 2) = 0
        /\ OffEdge(q)
        /\ tileParity(q % img.w, q \div img.w, bestPeriod) = 0
        /\ seen[q] = 0

\* C20: a pixel whose gradient is above gradKeep is rejected only when its
\* distance to the background is also above 0.4 times the tolerance: with a
\* gradient above gradKeep and a distance of at most 0.4 times the tolerance
\* it is admitted.
ClaimC20 ==
    (Succeeded /\ ~Malformed(opts)) =>
        \A q \in Pixels :
            (/\ HasVisitedNeighbour(q)
             /\ ~OffEdge(q)
             /\ nearestReference(q) * 10 <= withDefaults(opts).colorTol * 100 * 4)
                => seen[q] = 1

\* what happens instead: a pixel of exactly the colour of the reference, on a
\* gradient above gradKeep and next to a visited pixel, has its likelihood
\* cut to 0.2 and is never admitted
EdgeAlwaysRejected ==
    /\ Succeeded
    /\ ~Malformed(opts)
    /\ \E q \in Pixels :
        /\ HasVisitedNeighbour(q)
        /\ ~OffEdge(q)
        /\ dcOf(data, q, refLab, 1) = 0
        /\ tileParity(q % img.w, q \div img.w, bestPeriod) = 0
        /\ like[q] = (LikeOne * 2) \div 10
        /\ seen[q] = 0

-----------------------------------------------------------------------------
(* Properties of the tolerance *)

\* the distance of pixel p to the reference its coordinates select (line 243)
selectedDistance(p) ==
    dcOf(data, p, refLab, 1 + tileParity(p % img.w, p \div img.w, bestPeriod))

\* the tolerance as the claim derives it, hundredths: max(colorTol, 12), raised
\* to 0.45 times the distance between two distinct references, at most 45
derivedTolerance ==
    LET base == Max(withDefaults(opts).colorTol, 12) * 100
        apart == distLab(refLab[1][1], refLab[1][2], refLab[1][3], refLab[2])
    IN IF refLab[1] = refLab[2] THEN base ELSE Min(4500, Max(base, (apart * 45) \div 100))

Decoded == pc \in {"seedX", "seedY", "grow", "done"} /\ thrown = "none"

\* C21: the tolerance of the likelihood is max(colorTol, 12), raised to 0.45
\* times the distance between two distinct references and capped at 45: a
\* pixel off the edges that the traversal has not reached has a positive
\* likelihood exactly when its distance is below that tolerance.
ClaimC21 ==
    (Decoded /\ ~Malformed(opts)) =>
        \A p \in Pixels :
            (seen[p] = 0 /\ OffEdge(p)) =>
                (like[p] > 0 <=> selectedDistance(p) < derivedTolerance)

\* what happens instead: colorTol is the tolerance as it was passed, and a
\* pixel between colorTol and 12 from its reference has likelihood 0
ToleranceNotRaised ==
    /\ Succeeded
    /\ ~Malformed(opts)
    /\ \E p \in Pixels :
        /\ seen[p] = 0
        /\ OffEdge(p)
        /\ selectedDistance(p) > withDefaults(opts).colorTol * 100
        /\ selectedDistance(p) < 1200
        /\ like[p] = 0

-----------------------------------------------------------------------------
(* Properties of the initial frontier *)

\* the border loops have ended and nothing has been dequeued
FrontierBuilt == pc = "grow" /\ head = 0 /\ thrown = "none"

\* the pixels of the seeds that were passed
SeedPixels == {opts.seedPoints[k].y * img.w + opts.seedPoints[k].x : k \in DOMAIN opts.seedPoints}

\* C22: the mode selects the initial frontier: the border only in mode auto,
\* the seed pixels only in mode seed, both in mode auto+seed.
ClaimC22 ==
    FrontierBuilt =>
        /\ opts.mode = "auto" => \A p \in Visited : OnBorder(p)
        /\ opts.mode = "seed" => Visited = SeedPixels
        /\ opts.mode = "auto+seed" => SeedPixels \subseteq Visited

\* what happens instead: in mode seed the frontier is made of border pixels
\* and the seed pixel is not in it
SeedModeStartsAtBorder ==
    /\ FrontierBuilt
    /\ opts.mode = "seed"
    /\ SeedPixels # {}
    /\ SeedPixels \cap Visited = {}
    /\ \E p \in Visited : OnBorder(p)

-----------------------------------------------------------------------------
(* Properties of the background references *)

\* the samples of the four corner patches, and their light and dark groups
samplesRead == cornerSamples(data, img.w, img.h)

lightRead == lightSamples(samplesRead, medianL(samplesRead))

darkRead == darkSamples(samplesRead, medianL(samplesRead))

\* every channel of colour c is that channel of one of the samples
FromSamples(c, samples) ==
    \A ch \in 1..3 : \E j \in DOMAIN samples : samples[j][ch] = c[ch]

\* the colour whose Lab is lab, if a median of the samples has it
IsLabOfMedian(lab, samples) ==
    /\ samples # <<>>
    /\ FromSamples(medianColor(samples), samples)
    /\ lab = rgbToLab(medianColor(samples)[1], medianColor(samples)[2], medianColor(samples)[3])

\* the references have just been computed; no later step writes them
ReferencesSet == pc = "seedX" /\ at = 0 /\ thrown = "none"

-----------------------------------------------------------------------------
(* The feather on its own: applyFeather and the box mean of the earlier variant *)

\* the most pixels of a mask
MaxBlurPixels == 9

MaxRadius == 2

RECURSIVE binadeOf(_, _, _)
\* the least k, from k upwards, with count * 2^k >= cnt: count / cnt is in
\* [2^-k, 2^(1-k))
binadeOf(count, cnt, k) == IF count * 2^k >= cnt THEN k ELSE binadeOf(count, cnt, k + 1)

\* the store of sum / cnt into a Float32Array, sum a whole number of at most
\* cnt: the nearest float, ties to even, in units of 2^-28
quotientToFloat32(count, cnt) ==
    IF count = 0 THEN 0
    ELSE LET k == binadeOf(count, cnt, 0)
             scaled == count * 2^(k + MantissaBits - 1)
             q == scaled \div cnt
             r == scaled % cnt
             rounded == IF 2 * r > cnt \/ (2 * r = cnt /\ q % 2 = 1) THEN q + 1 ELSE q
         IN rounded * (MaskOne \div 2^(k + MantissaBits - 1))

\* the pixels of the window of the earlier variant around p that lie in the image
boxWindow(p, width, height, radius) ==
    {q \in 0..(width * height - 1) :
        /\ (q % width) >= (p % width) - radius
        /\ (q % width) <= (p % width) + radius
        /\ (q \div width) >= (p \div width) - radius
        /\ (q \div width) <= (p \div width) + radius}

\* a mean that divides by the whole window, also where it leaves the image
boxMeanUnclamped(m, width, height, radius) ==
    [p \in 0..(width * height - 1) |->
        LET window == boxWindow(p, width, height, radius)
            sum == Cardinality({q \in window : m[q] = MaskOne})
        IN quotientToFloat32(sum, (2 * radius + 1) * (2 * radius + 1))]

\* the single pass of lines 463-474: tmp[y * W + x] = sum / cnt
boxMean(m, width, height, radius) ==
    [p \in 0..(width * height - 1) |->
        LET window == boxWindow(p, width, height, radius)
            sum == Cardinality({q \in window : m[q] = MaskOne})
        IN quotientToFloat32(sum, Cardinality(window))]

BinaryMasks(width, height) == [0..(width * height - 1) -> {0, MaskOne}]

\* the sizes of a mask of at most MaxBlurPixels pixels
BlurSizes ==
    {size \in (1..MaxBlurPixels) \X (1..MaxBlurPixels) : size[1] * size[2] <= MaxBlurPixels}

BlurInputs ==
    UNION {{[w |-> size[1], h |-> size[2], radius |-> r, mask |-> m, separable |-> <<>>,
             box |-> <<>>] : m \in BinaryMasks(size[1], size[2])} :
            size \in BlurSizes, r \in 1..MaxRadius}

InitBlur == EngineIdle /\ EditorIdle /\ ResizeIdle /\ SingleCall /\ PageIdle /\ blur \in BlurInputs

\* applyFeather(mask, width, height, radius)
BlurSeparable ==
    /\ blur.mask # <<>>
    /\ blur.separable = <<>>
    /\ blur' = [blur EXCEPT !.separable = applyFeather(blur.mask, blur.w, blur.h, blur.radius)]
    /\ UNCHANGED outsideBlur

\* the box mean of the earlier variant on the same mask
BlurBox ==
    /\ blur.mask # <<>>
    /\ blur.box = <<>>
    /\ blur' = [blur EXCEPT !.box = boxMean(blur.mask, blur.w, blur.h, blur.radius)]
    /\ UNCHANGED outsideBlur

NextBlur ==
    \/ BlurSeparable
    \/ BlurBox

SpecBlur == InitBlur /\ [][NextBlur]_vars

-----------------------------------------------------------------------------
(* Properties of the feather on its own *)

BothBlurred == blur.separable # <<>> /\ blur.box # <<>>

\* C24: the two-pass applyFeather and the single-pass box mean of the
\* earlier variant give the same mask, the mean of the binary mask over the
\* clamped window, for every binary mask, width, height and radius.
ClaimC24 == BothBlurred => blur.separable = blur.box

\* 2^-24, the distance between neighbouring floats in [1/2, 1)
FloatStep == MaskOne \div 2^MantissaBits

\* C24: on every binary mask, width, height and radius the two-pass
\* applyFeather and the single-pass box mean agree up to the rounding of
\* the intermediate pass: they are equal where the window is all 0 or all 1,
\* nowhere further apart than 2^-24, and the alphas made from them differ by
\* at most 1.
TheoremC24 ==
    BothBlurred =>
        \A p \in DOMAIN blur.mask :
            LET window == boxWindow(p, blur.w, blur.h, blur.radius)
            IN /\ Abs(blur.separable[p] - blur.box[p]) <= FloatStep
               /\ Abs(alphaOf(blur.separable[p]) - alphaOf(blur.box[p])) <= 1
               /\ (\A q \in window : blur.mask[q] = MaskOne)
                    => blur.separable[p] = MaskOne /\ blur.box[p] = MaskOne
               /\ (\A q \in window : blur.mask[q] = 0)
                    => blur.separable[p] = 0 /\ blur.box[p] = 0

\* a mask on which the two feathers differ, in the mask value and in the
\* alpha made from it
WitnessC24 ==
    /\ BothBlurred
    /\ \E p \in DOMAIN blur.mask :
        /\ blur.separable[p] # blur.box[p]
        /\ alphaOf(blur.separable[p]) # alphaOf(blur.box[p])

-----------------------------------------------------------------------------
(* Properties of the feather guard *)

\* C25: with a feather of 0 or less the final mask is the binary mask and
\* every alpha is 0 or 255; with a feather above 0 the final mask is the
\* binary mask blurred with radius floor(feather), or 1 when that is 0.
TheoremC25 ==
    Succeeded =>
        LET feather == withDefaults(opts).feather
            binary == binaryMask(like)
        IN /\ feather <= 0 =>
                /\ mask = binary
                /\ \A p \in Pixels : data[p][4] \in {0, Opaque}
           /\ feather > 0 =>
                /\ feather < FeatherUnit =>
                        mask = applyFeather(binary, img.w, img.h, 1)
                /\ feather >= FeatherUnit =>
                        mask = applyFeather(binary, img.w, img.h, feather \div FeatherUnit)

\* a call with a feather below 0 on a cutout with an edge: alphas 0 and 255
\* side by side, and a pixel that came with another alpha
WitnessC25 ==
    /\ Succeeded
    /\ withDefaults(opts).feather < 0
    /\ \E p \in Pixels : \E q \in Pixels :
        /\ FourConnected(p, q)
        /\ data[p][4] = 0
        /\ data[q][4] = Opaque
    /\ \E p \in Pixels : img.px[p][4] = HalfAlpha

-----------------------------------------------------------------------------
(* Properties of the gradient map *)

\* C26: the gradient is 0 on the first and last row and column, and
\* everywhere in an image less than 3 wide or high; so the likelihood of a
\* border pixel is never cut, whatever lies next to it.
TheoremC26 ==
    ReferencesSet =>
        \A p \in Pixels :
            (OnBorder(p) \/ img.w < 3 \/ img.h < 3) =>
                /\ gradAt(data, img.w, img.h, p) = 0
                /\ like[p] = likelihood(selectedDistance(p), withDefaults(opts).colorTol, 0,
                                        withDefaults(opts).gradKeep)

\* a border pixel of the reference colour on a step of the luminance that is
\* above gradKeep when taken across the border: its likelihood is whole, and
\* an inner pixel on the same step has its likelihood cut
WitnessC26 ==
    /\ ReferencesSet
    /\ ~Malformed(opts)
    /\ \E p \in Pixels :
        /\ OnBorder(p)
        /\ gradAtClamped(data, img.w, img.h, p) > withDefaults(opts).gradKeep * 10
        /\ like[p] = LikeOne
    /\ \E q \in Pixels :
        /\ ~OnBorder(q)
        /\ ~OffEdge(q)
        /\ selectedDistance(q) = 0
        /\ like[q] < LikeOne

-----------------------------------------------------------------------------
(* The modal under timers that fire and calls that settle *)

\* A timeout that is not cleared fires after 150 ms, and the promise of
\* makeBackgroundTransparent always settles: the call resolves with the PNG or,
\* from its catch, with the url it was given.
SpecEditorFair ==
    /\ InitEditor
    /\ [][NextEditor]_vars
    /\ WF_vars(\E r \in DOMAIN runs : TimerFires(r))
    /\ WF_vars(\E r \in DOMAIN runs, outcome \in Outcomes : CallResolves(r, outcome))

\* the call of the run that belongs to the last change has settled
LatestSettled == LatestIsLive /\ runs[Len(runs)].stage = "settled"

\* C28: once the timer of the last change has fired and its call has settled,
\* isProcessing is false; and isProcessing never stays true forever.
TheoremC28 ==
    /\ []((Mounted /\ LatestSettled) => ~isProcessing)
    /\ (isProcessing ~> ~isProcessing)

\* a seed was added and taken back while the call of the seed was still to be
\* made or to settle; the call made after the undo has settled and the modal is
\* no longer processing
WitnessC28 ==
    /\ Mounted
    /\ LatestSettled
    /\ ~isProcessing
    /\ Len(runs) >= 2
    /\ runs[Len(runs) - 1].cancelled
    /\ runs[Len(runs) - 1].stage \in {"cleared", "settled"}
    /\ Len(runs[Len(runs) - 1].seeds) > Len(seedPoints)
    /\ runs[Len(runs)].seeds = seedPoints

-----------------------------------------------------------------------------
(* What normalizeImageSize leaves alone *)

\* the call has returned
Returned == resize.pc = "done" /\ resize.outcome # "rejected"

\* C30: an image whose longer side is at most maxDimension, or is 0, comes
\* back as the same dataUrl with its own width and height, and so does any
\* image when no 2D context is to be had.
TheoremC30 ==
    (Returned /\ (~TooLarge \/ ~resize.context)) =>
        /\ resize.outcome = "same"
        /\ resize.width = resize.w
        /\ resize.height = resize.h

\* an image with both sides beyond maxDimension came back as it was, for want
\* of a context
WitnessC30 ==
    /\ Returned
    /\ ~resize.context
    /\ resize.outcome = "same"
    /\ Min(resize.w, resize.h) > resize.maxDimension
    /\ resize.w # resize.h
    /\ resize.width = resize.w
    /\ resize.height = resize.h

-----------------------------------------------------------------------------
(* StickerAppPage: the stickers, their generation and the handlers *)

MaxCalls == 2

\* two of the expressions of getInitialExpressions
DefaultLabels == <<"expThumbsUp", "expCheekySmile">>

\* the labels an expression can have
Labels == {DefaultLabels[i] : i \in DOMAIN DefaultLabels}

\* A url is <<kind, call, form>>: null, the image that normalizeImageSize made
\* of the answer to a call ("image"; form "raw" when the dataUrl came back as
\* it was, "scaled" when it was redrawn), the PNG that makeBackgroundTransparent
\* made of that image in generateSticker ("png") or in the modal ("edit").
Null == <<"null", 0, "none">>

Forms == {"raw", "scaled"}

constrained(call, form) == <<"image", call, form>>

pngOf(url) == <<"png", url[2], url[3]>>

editOf(url) == <<"edit", url[2], url[3]>>

\* a fallback that loses the image
processedOrNull(original, outcome) == IF outcome = "png" THEN pngOf(original) ELSE Null

\* processedImageUrl of lines 3106-3116: what makeBackgroundTransparent
\* resolved with, the PNG or, from its catch, the url it was given
processed(original, outcome) == IF outcome = "png" THEN pngOf(original) ELSE original

\* { ...exp, imageUrl: null, originalImageUrl: null, status: 'idle' }
idle(label) ==
    [label |-> label, imageUrl |-> Null, originalImageUrl |-> Null, status |-> "idle"]

idleAll(exps) == [i \in DOMAIN exps |-> idle(exps[i])]

has(ss, label) == \E i \in DOMAIN ss : ss[i].label = label

find(ss, label) == ss[CHOOSE i \in DOMAIN ss : ss[i].label = label /\ \A j \in 1..(i - 1) : ss[j].label # label]

\* the effect of lines 2979-2987 after expressions has changed
synced(prev, exps) ==
    [i \in DOMAIN exps |-> IF has(prev, exps[i]) THEN find(prev, exps[i]) ELSE idle(exps[i])]

\* prev.map(s => s.label === label ? { ...s, status } : s)
withStatus(prev, label, status) ==
    [i \in DOMAIN prev |-> IF prev[i].label = label THEN [prev[i] EXCEPT !.status = status] ELSE prev[i]]

\* a last update that leaves originalImageUrl as it was
withImageOnly(prev, label, imageUrl, originalImageUrl) ==
    [i \in DOMAIN prev |->
        IF prev[i].label = label
        THEN [prev[i] EXCEPT !.imageUrl = imageUrl, !.status = "done"]
        ELSE prev[i]]

\* the update of line 3117
withImages(prev, label, imageUrl, originalImageUrl) ==
    [i \in DOMAIN prev |->
        IF prev[i].label = label
        THEN [prev[i] EXCEPT !.imageUrl = imageUrl, !.originalImageUrl = originalImageUrl,
                             !.status = "done"]
        ELSE prev[i]]

\* the update of line 3073
withImageUrl(prev, label, newImageUrl) ==
    [i \in DOMAIN prev |->
        IF prev[i].label = label THEN [prev[i] EXCEPT !.imageUrl = newImageUrl] ELSE prev[i]]

\* the page once its first effects have run (lines 2908-2947 and 2979-2987):
\* the expressions are the defaults, no image, no sticker generated
InitPage ==
    /\ EngineIdle
    /\ EditorIdle
    /\ ResizeIdle
    /\ SingleCall
    /\ BlurIdle
    /\ expressions = DefaultLabels
    /\ stickers = idleAll(DefaultLabels)
    /\ userImage = FALSE
    /\ transparentBackground = TRUE
    /\ isLoading = FALSE
    /\ editingSticker = <<>>
    /\ generating = <<>>

\* a call of generateSticker up to its first await (lines 3078-3091)
newCall(label, loop, last, stage) ==
    [label |-> label, transparent |-> transparentBackground, stage |-> stage,
     original |-> Null, loop |-> loop, last |-> last]

Ended == {"done", "error"}

\* handleCropSave (3064-3070)
CropSave ==
    /\ userImage' = TRUE
    /\ stickers' = idleAll(expressions)
    /\ UNCHANGED <<expressions, transparentBackground, isLoading, editingSticker, generating>>
    /\ UNCHANGED outsidePage

\* handleAddExpression (3026-3036) with a label that is not there, and the
\* effect that follows
AddExpression(label) ==
    /\ ~\E i \in DOMAIN expressions : expressions[i] = label
    /\ expressions' = Append(expressions, label)
    /\ stickers' = synced(stickers, expressions')
    /\ UNCHANGED <<userImage, transparentBackground, isLoading, editingSticker, generating>>
    /\ UNCHANGED outsidePage

\* handleRemoveExpression (3038-3040) from the button of a sticker that is not
\* loading, and the effect that follows
RemoveExpression(label) ==
    /\ \E i \in DOMAIN stickers : stickers[i].label = label /\ stickers[i].status # "loading"
    /\ expressions' = SelectSeq(expressions, LAMBDA e : e # label)
    /\ stickers' = synced(stickers, expressions')
    /\ UNCHANGED <<userImage, transparentBackground, isLoading, editingSticker, generating>>
    /\ UNCHANGED outsidePage

\* handleRestoreDefaults (3186-3224), confirmed
RestoreDefaults ==
    /\ expressions' = DefaultLabels
    /\ stickers' = idleAll(DefaultLabels)
    /\ userImage' = FALSE
    /\ isLoading' = FALSE
    /\ transparentBackground' = TRUE
    /\ editingSticker' = <<>>
    /\ UNCHANGED generating
    /\ UNCHANGED outsidePage

\* onTransparentChange (3293)
SetTransparent(checked) ==
    /\ checked # transparentBackground
    /\ transparentBackground' = checked
    /\ UNCHANGED <<expressions, stickers, userImage, isLoading, editingSticker, generating>>
    /\ UNCHANGED outsidePage

\* handleGenerate (3129-3146) up to the await of the first generateSticker;
\* the calls of the later turns of the loop are held as "queued"
Generate ==
    /\ ~isLoading
    /\ userImage
    /\ expressions # <<>>
    /\ Len(generating) + Len(expressions) <= MaxCalls
    /\ isLoading' = TRUE
    /\ stickers' = withStatus(idleAll(expressions), expressions[1], "loading")
    /\ generating' = generating \o
            [i \in DOMAIN expressions |->
                newCall(expressions[i], TRUE, i = Len(expressions),
                        IF i = 1 THEN "service" ELSE "queued")]
    /\ UNCHANGED <<expressions, userImage, transparentBackground, editingSticker>>
    /\ UNCHANGED outsidePage

\* handleRegenerate (3148-3157) from the button of a sticker that is done or
\* in error, up to the await of generateSticker
Regenerate(label) ==
    /\ \E i \in DOMAIN stickers : stickers[i].label = label /\ stickers[i].status \in Ended
    /\ userImage
    /\ \E i \in DOMAIN expressions : expressions[i] = label
    /\ Len(generating) < MaxCalls
    /\ stickers' = withStatus(stickers, label, "loading")
    /\ generating' = Append(generating, newCall(label, FALSE, TRUE, "service"))
    /\ UNCHANGED <<expressions, userImage, transparentBackground, isLoading, editingSticker>>
    /\ UNCHANGED outsidePage

\* call k returns with the stickers ss: the loop of handleGenerate, if the
\* call is one of its turns, goes on to its next turn or to its finally
returns(k, stage, original, ss) ==
    LET call == generating[k]
        chained == call.loop /\ ~call.last
    IN /\ generating' =
             [i \in DOMAIN generating |->
                IF i = k THEN [call EXCEPT !.stage = stage, !.original = original]
                ELSE IF chained /\ i = k + 1 THEN [generating[i] EXCEPT !.stage = "service"]
                ELSE generating[i]]
       /\ stickers' = IF chained THEN withStatus(ss, generating[k + 1].label, "loading") ELSE ss
       /\ isLoading' = IF call.loop /\ call.last THEN FALSE ELSE isLoading

\* the service answers call k with an image (3094-3104): normalizeImageSize is called
ServiceReturnsImage(k) ==
    /\ generating[k].stage = "service"
    /\ generating' = [generating EXCEPT ![k].stage = "normalize"]
    /\ UNCHANGED <<expressions, stickers, userImage, transparentBackground, isLoading, editingSticker>>
    /\ UNCHANGED outsidePage

\* the service answers call k without an image (3118-3121)
ServiceReturnsNoImage(k) ==
    /\ generating[k].stage = "service"
    /\ returns(k, "error", Null, withStatus(stickers, generating[k].label, "error"))
    /\ UNCHANGED <<expressions, userImage, transparentBackground, editingSticker>>
    /\ UNCHANGED outsidePage

\* the request of call k fails (3122-3125)
ServiceThrows(k) ==
    /\ generating[k].stage = "service"
    /\ returns(k, "error", Null, withStatus(stickers, generating[k].label, "error"))
    /\ UNCHANGED <<expressions, userImage, transparentBackground, editingSticker>>
    /\ UNCHANGED outsidePage

\* normalizeImageSize rejects, the image of the answer does not load (3122-3125)
NormalizeRejects(k) ==
    /\ generating[k].stage = "normalize"
    /\ returns(k, "error", Null, withStatus(stickers, generating[k].label, "error"))
    /\ UNCHANGED <<expressions, userImage, transparentBackground, editingSticker>>
    /\ UNCHANGED outsidePage

\* normalizeImageSize resolves (3104-3117): with transparentBackground the
\* image goes to makeBackgroundTransparent, without it the sticker is done
NormalizeResolves(k, form) ==
    /\ generating[k].stage = "normalize"
    /\ LET original == constrained(k, form)
       IN IF generating[k].transparent
          THEN /\ generating' = [generating EXCEPT ![k].stage = "remove", ![k].original = original]
               /\ UNCHANGED <<stickers, isLoading>>
          ELSE returns(k, "done", original,
                       withImages(stickers, generating[k].label, original, original))
    /\ UNCHANGED <<expressions, userImage, transparentBackground, editingSticker>>
    /\ UNCHANGED outsidePage

\* makeBackgroundTransparent settles (3107-3117); it never rejects
RemovalSettles(k, outcome) ==
    /\ generating[k].stage = "remove"
    /\ returns(k, "done", generating[k].original,
               withImages(stickers, generating[k].label,
                          processed(generating[k].original, outcome), generating[k].original))
    /\ UNCHANGED <<expressions, userImage, transparentBackground, editingSticker>>
    /\ UNCHANGED outsidePage

\* onEdit (3332) from the button of a sticker that is done and has an original
EditSticker(i) ==
    /\ editingSticker = <<>>
    /\ stickers[i].status = "done"
    /\ stickers[i].originalImageUrl # Null
    /\ editingSticker' = <<stickers[i]>>
    /\ UNCHANGED <<expressions, stickers, userImage, transparentBackground, isLoading, generating>>
    /\ UNCHANGED outsidePage

\* onClose (3281)
CloseEditor ==
    /\ editingSticker # <<>>
    /\ editingSticker' = <<>>
    /\ UNCHANGED <<expressions, stickers, userImage, transparentBackground, isLoading, generating>>
    /\ UNCHANGED outsidePage

\* handleSave of the modal (2274-2278) and handleSaveTransparency (3072-3075):
\* the preview is what the call of the modal on the original resolved with
SaveTransparency(outcome) ==
    /\ editingSticker # <<>>
    /\ LET s == editingSticker[1]
           preview == IF outcome = "png" THEN editOf(s.originalImageUrl) ELSE s.originalImageUrl
       IN stickers' = withImageUrl(stickers, s.label, preview)
    /\ editingSticker' = <<>>
    /\ UNCHANGED <<expressions, userImage, transparentBackground, isLoading, generating>>
    /\ UNCHANGED outsidePage

NextPage ==
    \/ CropSave
    \/ \E label \in Labels : AddExpression(label)
    \/ \E label \in Labels : RemoveExpression(label)
    \/ RestoreDefaults
    \/ \E checked \in BOOLEAN : SetTransparent(checked)
    \/ Generate
    \/ \E label \in Labels : Regenerate(label)
    \/ \E k \in DOMAIN generating : ServiceReturnsImage(k)
    \/ \E k \in DOMAIN generating : ServiceReturnsNoImage(k)
    \/ \E k \in DOMAIN generating : ServiceThrows(k)
    \/ \E k \in DOMAIN generating : NormalizeRejects(k)
    \/ \E k \in DOMAIN generating, form \in Forms : NormalizeResolves(k, form)
    \/ \E k \in DOMAIN generating, outcome \in Outcomes : RemovalSettles(k, outcome)
    \/ \E i \in DOMAIN stickers : EditSticker(i)
    \/ CloseEditor
    \/ \E outcome \in Outcomes : SaveTransparency(outcome)

SpecPage == InitPage /\ [][NextPage]_vars

-----------------------------------------------------------------------------
(* Properties of generateSticker *)

\* call k returns in this step
Returns(k) == generating[k].stage \notin Ended /\ generating'[k].stage \in Ended

\* every sticker of call k is done, with the normalised image of the call as
\* its original and that image or the PNG made of it as its image
DoneWith(ss, call) ==
    \A i \in DOMAIN ss :
        ss[i].label = call.label =>
            /\ ss[i].status = "done"
            /\ ss[i].originalImageUrl = call.original
            /\ ss[i].originalImageUrl[1] = "image"
            /\ ss[i].imageUrl \in {pngOf(call.original), call.original}

\* C27 as claimed: whenever the service returned an image, the sticker ends
\* with status 'done', its originalImageUrl the normalised image and its
\* imageUrl the processed image or that same normalised image.
ClaimC27 ==
    [][\A k \in DOMAIN generating :
            (Returns(k) /\ generating[k].stage \in {"normalize", "remove"}) =>
                /\ generating'[k].stage = "done"
                /\ has(stickers', generating[k].label)
                /\ DoneWith(stickers', generating'[k])]_vars

\* C27: a call whose image was normalised returns with every sticker of its
\* label done, originalImageUrl the normalised image and imageUrl the PNG
\* made of it or that same image, whatever became of the background removal.
TheoremC27 ==
    [][\A k \in DOMAIN generating :
            (Returns(k) /\ generating'[k].original # Null) =>
                /\ generating'[k].stage = "done"
                /\ DoneWith(stickers', generating'[k])]_vars

\* a call made with transparentBackground has returned, the removal gave back
\* the image it was given, and the sticker is done with that image
WitnessC27 ==
    \E k \in DOMAIN generating, i \in DOMAIN stickers :
        /\ generating[k].stage = "done"
        /\ generating[k].transparent
        /\ stickers[i].label = generating[k].label
        /\ stickers[i].status = "done"
        /\ stickers[i].originalImageUrl = generating[k].original
        /\ stickers[i].imageUrl = generating[k].original
        /\ generating[k].original[1] = "image"

-----------------------------------------------------------------------------
(* Properties of the stickers of the page *)

\* C29: under every interleaving of the handlers and of the calls they leave
\* in flight, a sticker with status 'done' has an imageUrl and an
\* originalImageUrl that are not null.
TheoremC29 ==
    \A i \in DOMAIN stickers :
        stickers[i].status = "done" =>
            /\ stickers[i].imageUrl # Null
            /\ stickers[i].originalImageUrl # Null

\* the defaults were restored while a call was in flight; the call has
\* returned since and has made a sticker of the new list done
WitnessC29 ==
    /\ ~userImage
    /\ \E i \in DOMAIN stickers, k \in DOMAIN generating :
            /\ stickers[i].status = "done"
            /\ generating[k].stage = "done"
            /\ generating[k].label = stickers[i].label
            /\ stickers[i].originalImageUrl = generating[k].original
            /\ stickers[i].imageUrl = pngOf(generating[k].original)

=============================================================================
